---- MODULE Spec2Model ----
(***************************************************************************)
(* Verification model of the PDF -> page images -> Markdown -> translation *)
(* pipeline of NipponStudyKit (src/03_pdf2img2md2zh.py), of its indexing    *)
(* variant (src/03_pdf2img2md_make_index.py), of the workflow-engine        *)
(* pipeline (src/process_handbooks_pdf.py) and of the PDF downloader        *)
(* (src/download_pdf.py).                                                   *)
(*                                                                         *)
(* The specifications of this module share one list of variables:          *)
(*   SpecSan    sanitize_filename as a pure function                       *)
(*   SpecStale  the line-count staleness test of process_single_pdf        *)
(*   SpecExport save_images_with_progress with interleaved workers         *)
(*   Spec       workflow / process_single_pdf over a modelled file system  *)
(*   SpecPages  the page loop of process_single_pdf on long documents      *)
(*   SpecUnit   one call of process_single_pdf from every unit state       *)
(*   SpecBatch  one fresh run over a folder of several documents           *)
(*   SpecCrash  the workflow with runs interrupted between two steps       *)
(*   SpecIndex  process_single_pdf of the indexing variant                 *)
(*   SpecReview review_workflow on a unit left by workflow, then resumes   *)
(*   SpecHandbook  the workers of process_handbooks_pdf on one project     *)
(*   SpecDownload  batch_download_from_csv with interleaved pool threads   *)
(*                                                                         *)
(* Text is a sequence of character tokens (one-character strings, or a     *)
(* word naming one character: "kanji", "circle", "tab", "nl", "bslash").   *)
(***************************************************************************)
EXTENDS Integers, Sequences, FiniteSets, TLC

VARIABLES
    sanIn, sanOut, sanPc,                 \* sanitize_filename: argument, result, position
    stJp, stZh, stOut,                    \* staleness test: jp_lines, zh_lines, decision
    exN, exW, exPc, exProg, exTask,       \* exporter: #images, max_workers, position, per-task progress/status
    exFiles, exWrites, exWriter,          \* exporter: files on disk, write counts, writers per index
    fs,                                   \* file system: canonical directory path -> directory content
    pages,                                \* page count of every input document
    pc,                                   \* position of the (sequential) program
    wf,                                   \* locals of workflow
    psp,                                  \* arguments and locals of process_single_pdf
    runs,                                 \* number of workflow runs started so far
    rasterCalls,                          \* convert_pdf_to_images invocations per document, all runs
    env,                                  \* what the OCR and formatting services may answer
    rv,                                   \* review_workflow: position, directories to do, history of the run
    hb,                                   \* process_handbooks_pdf: one project, its works and files
    dl                                    \* PDFDownloader: rows, worker threads, files of the save directory

sanVars   == <<sanIn, sanOut, sanPc>>
staleVars == <<stJp, stZh, stOut>>
expVars   == <<exN, exW, exPc, exProg, exTask, exFiles, exWrites, exWriter>>
mainVars  == <<fs, pages, pc, wf, psp, runs, rasterCalls, env>>
revVars   == <<rv>>
hbVars    == <<hb>>
dlVars    == <<dl>>
vars      == <<sanVars, staleVars, expVars, mainVars, revVars, hbVars, dlVars>>

\* ---------------------------------------------------------------- bounds
MaxNameLen == 3      \* longest file name handed to sanitize_filename
MaxLines   == 100    \* largest non-blank line count of either document
MaxImages  == 4      \* largest number of page images exported
MaxWorkers == 3      \* largest worker bound of the exporter
MaxPages   == 2      \* largest page count of an input document
MaxRuns    == 3      \* workflow runs over one output root (one fresh, then resumes)
MaxLongDoc == 11     \* largest page count in the page-stage specification

\* ------------------------------------------------------- small utilities
Max2(a, b) == IF a >= b THEN a ELSE b
Min2(a, b) == IF a <= b THEN a ELSE b
Abs(a) == IF a >= 0 THEN a ELSE 0 - a

SeqsUpTo(S, n) == UNION {[1..k -> S] : k \in 0..n}

\* ------------------------------------------------------------------------
\* sanitize_filename
\* ------------------------------------------------------------------------
\* str.isalnum(): letters and digits of any script; symbols, punctuation,
\* separators and whitespace are not alphanumeric.
Letters == {"a", "b", "c", "d", "e", "f", "i", "l", "n", "o", "r", "t", "u", "y", "z", "Z"}
Digits == {"0", "1", "2", "9"}
AlnumChars == Letters \cup Digits \cup {"kanji"}
WhitespaceChars == {" ", "tab", "nl"}
PathSeparators == {"/", "bslash"}
SymbolChars == {"circle", "."}

isalnum(c) == c \in AlnumChars

\* The characters sanitize_filename is exercised on.
SanChars == {"a", "Z", "9", "kanji", "circle", "/", " ", "tab", "nl", "_", "-", "bslash", "."}

\* str.replace(old, new) for one-character old and new
replace(s, old, new) == [i \in 1..Len(s) |-> IF s[i] = old THEN new ELSE s[i]]

KeepChar(c) == isalnum(c) \/ c \in {"_", "-"}

\* sanitize_filename without its first replacement
sanitize_filename_no_dash(filename) ==
    SelectSeq(replace(filename, " ", "_"), KeepChar)

sanitize_filename(filename) ==
    LET f1 == replace(filename, "/", "-")
        f2 == replace(f1, " ", "_")
    IN  SelectSeq(f2, KeepChar)

InitSan ==
    /\ sanIn \in SeqsUpTo(SanChars, MaxNameLen)
    /\ sanOut = <<>>
    /\ sanPc = "call"
    /\ stJp = 0 /\ stZh = 0 /\ stOut = "off"
    /\ exN = 0 /\ exW = 1 /\ exPc = "off" /\ exProg = <<>> /\ exTask = <<>>
    /\ exFiles = <<>> /\ exWrites = <<>> /\ exWriter = <<>>
    /\ fs = <<>> /\ pages = <<>> /\ pc = "off" /\ wf = <<>> /\ psp = <<>>
    /\ runs = 0 /\ rasterCalls = <<>> /\ env = "off"
    /\ rv = <<>> /\ hb = <<>> /\ dl = <<>>

SanitizeCall ==
    /\ sanPc = "call"
    /\ sanOut' = sanitize_filename(sanIn)
    /\ sanPc' = "returned"
    /\ UNCHANGED sanIn

\* ------------------------------------------------------------------------
\* staleness test of process_single_pdf
\* ------------------------------------------------------------------------
StaleThreshold == 15

\* line_diff_percent = abs(zh_lines - jp_lines) / max(zh_lines + 1, jp_lines + 1) * 100
\* need_translate iff line_diff_percent > 15.  The float quotient is compared
\* exactly: d / m * 100 > 15 iff d * 100 > 15 * m (the double rounding never
\* crosses the threshold for line counts of this size).
\* the staleness test with the denominator max(zh_lines, jp_lines, 1)
line_diff_exceeds_plain_max(zh_lines, jp_lines) ==
    Abs(zh_lines - jp_lines) * 100 > StaleThreshold * Max2(Max2(zh_lines, jp_lines), 1)

line_diff_exceeds(zh_lines, jp_lines) ==
    Abs(zh_lines - jp_lines) * 100 > StaleThreshold * Max2(zh_lines + 1, jp_lines + 1)

InitStale ==
    /\ stJp \in 0..MaxLines
    /\ stZh \in 0..MaxLines
    /\ stOut = "undecided"
    /\ sanIn = <<>> /\ sanOut = <<>> /\ sanPc = "off"
    /\ exN = 0 /\ exW = 1 /\ exPc = "off" /\ exProg = <<>> /\ exTask = <<>>
    /\ exFiles = <<>> /\ exWrites = <<>> /\ exWriter = <<>>
    /\ fs = <<>> /\ pages = <<>> /\ pc = "off" /\ wf = <<>> /\ psp = <<>>
    /\ runs = 0 /\ rasterCalls = <<>> /\ env = "off"
    /\ rv = <<>> /\ hb = <<>> /\ dl = <<>>

StaleCheck ==
    /\ stOut = "undecided"
    /\ stOut' = IF line_diff_exceeds(stZh, stJp) THEN "stale" ELSE "fresh"
    /\ UNCHANGED <<stJp, stZh>>

\* ------------------------------------------------------------------------
\* save_images_with_progress
\* ------------------------------------------------------------------------
\* images: the list handed to the exporter; image k of the document is the
\* record [page |-> k].
ImagesOf(n) == [k \in 1..n |-> [page |-> k - 1]]

\* chunk_size = (total_pages + max_workers - 1) // max_workers
chunk_size(total_pages, max_workers) == (total_pages + max_workers - 1) \div max_workers

\* range(0, total_pages, chunk_size): the number of chunks
NumChunks(total_pages, max_workers) ==
    LET cs == chunk_size(total_pages, max_workers)
    IN  (total_pages + cs - 1) \div cs

\* chunks[i] = images[i*chunk_size : i*chunk_size + chunk_size], i zero-based
ChunkOf(i, total_pages, max_workers) ==
    LET cs == chunk_size(total_pages, max_workers)
        lo == i * cs
        hi == Min2(lo + cs, total_pages)
    IN  SubSeq(ImagesOf(total_pages), lo + 1, hi)

\* executor.submit(save_chunk, chunk, i * chunk_size, progress_bars[i])
\* the chunk number taken for the first file index of the chunk
start_idx_chunk_number(i, total_pages, max_workers) == i

start_idx(i, total_pages, max_workers) == i * chunk_size(total_pages, max_workers)

InitExport ==
    /\ exN \in 0..MaxImages
    /\ exW \in 1..MaxWorkers
    /\ exPc = "call"
    /\ exProg = <<>>
    /\ exTask = <<>>
    /\ exFiles = <<>>
    /\ exWrites = <<>>
    /\ exWriter = <<>>
    /\ sanIn = <<>> /\ sanOut = <<>> /\ sanPc = "off"
    /\ stJp = 0 /\ stZh = 0 /\ stOut = "off"
    /\ fs = <<>> /\ pages = <<>> /\ pc = "off" /\ wf = <<>> /\ psp = <<>>
    /\ runs = 0 /\ rasterCalls = <<>> /\ env = "off"
    /\ rv = <<>> /\ hb = <<>> /\ dl = <<>>

\* Lines 73-93: chunking, progress bars and submission of one future per chunk.
\* With no image chunk_size is 0 and range(0, 0, 0) raises ValueError.
ExportSubmit ==
    /\ exPc = "call"
    /\ IF exN = 0
       THEN /\ exPc' = "raised"
            /\ UNCHANGED <<exProg, exTask>>
       ELSE /\ exPc' = "running"
            /\ exProg' = [i \in 0..(NumChunks(exN, exW) - 1) |-> 0]
            /\ exTask' = [i \in 0..(NumChunks(exN, exW) - 1) |-> "running"]
    /\ UNCHANGED <<exN, exW, exFiles, exWrites, exWriter>>

\* One iteration of save_chunk's loop in the future of chunk i:
\* image.save(.../scan_{start_idx + j}.png)
SaveImage(i) ==
    /\ exPc = "running"
    /\ exTask[i] = "running"
    /\ exProg[i] < Len(ChunkOf(i, exN, exW))
    /\ LET j == exProg[i]
           k == start_idx(i, exN, exW) + j
           image == ChunkOf(i, exN, exW)[j + 1]
       IN  /\ exFiles' = [x \in DOMAIN exFiles \cup {k} |-> IF x = k THEN image ELSE exFiles[x]]
           /\ exWrites' = [x \in DOMAIN exWrites \cup {k} |->
                              IF x = k THEN (IF k \in DOMAIN exWrites THEN exWrites[k] + 1 ELSE 1)
                              ELSE exWrites[x]]
           /\ exWriter' = [x \in DOMAIN exWriter \cup {k} |->
                              IF x = k THEN (IF k \in DOMAIN exWriter THEN exWriter[k] \cup {i} ELSE {i})
                              ELSE exWriter[x]]
    /\ exProg' = [exProg EXCEPT ![i] = @ + 1]
    /\ UNCHANGED <<exN, exW, exPc, exTask>>

\* image.save raises in the future of chunk i: that future ends with the error,
\* the others are not cancelled.
SaveFails(i) ==
    /\ exPc = "running"
    /\ exTask[i] = "running"
    /\ exProg[i] < Len(ChunkOf(i, exN, exW))
    /\ exTask' = [exTask EXCEPT ![i] = "failed"]
    /\ UNCHANGED <<exN, exW, exPc, exProg, exFiles, exWrites, exWriter>>

\* save_chunk returns: the loop of chunk i is exhausted.
SaveChunkDone(i) ==
    /\ exPc = "running"
    /\ exTask[i] = "running"
    /\ exProg[i] = Len(ChunkOf(i, exN, exW))
    /\ exTask' = [exTask EXCEPT ![i] = "done"]
    /\ UNCHANGED <<exN, exW, exPc, exProg, exFiles, exWrites, exWriter>>

\* the exporter leaving as soon as one future has failed
joined_at_first_failure(task) ==
    \/ \E i \in DOMAIN task : task[i] = "failed"
    \/ \A i \in DOMAIN task : task[i] # "running"

\* Lines 90-96: the with-block is left, normally or by the exception that
\* future.result() re-raises, through ThreadPoolExecutor.__exit__, which is
\* shutdown(wait=True) without cancel_futures: it returns when no future is
\* running or pending any more
joined(task) == \A i \in DOMAIN task : task[i] # "running"

\* Lines 95-99: future.result() for every future, leaving the with-block
\* (ThreadPoolExecutor.__exit__ waits for every future), closing the bars.
\* The call returns if no future failed and re-raises otherwise.
ExportJoin ==
    /\ exPc = "running"
    /\ joined(exTask)
    /\ exPc' = IF \E i \in DOMAIN exTask : exTask[i] = "failed" THEN "raised" ELSE "returned"
    /\ UNCHANGED <<exN, exW, exProg, exTask, exFiles, exWrites, exWriter>>

\* ------------------------------------------------------------------------
\* text, paths and the file system
\* ------------------------------------------------------------------------
Put(f, k, v) == [x \in DOMAIN f \cup {k} |-> IF x = k THEN v ELSE f[x]]
Del(f, k) == [x \in DOMAIN f \ {k} |-> f[x]]

IsSpace(c) == c \in WhitespaceChars

\* str.strip(): leading and trailing whitespace removed
RECURSIVE lstrip(_)
lstrip(s) == IF s = <<>> THEN <<>> ELSE IF IsSpace(Head(s)) THEN lstrip(Tail(s)) ELSE s
RECURSIVE rstrip(_)
rstrip(s) == IF s = <<>> THEN <<>>
             ELSE IF IsSpace(s[Len(s)]) THEN rstrip(SubSeq(s, 1, Len(s) - 1)) ELSE s
strip(s) == rstrip(lstrip(s))

\* len([line for line in text.split('\n') if line.strip()])
RECURSIVE CountLines(_, _)
CountLines(s, inLine) ==
    IF s = <<>> THEN (IF inLine THEN 1 ELSE 0)
    ELSE IF Head(s) = "nl" THEN (IF inLine THEN 1 ELSE 0) + CountLines(Tail(s), FALSE)
    ELSE CountLines(Tail(s), inLine \/ ~IsSpace(Head(s)))
non_blank_lines(s) == CountLines(s, FALSE)

\* A path is a sequence of components, a component a sequence of characters;
\* an absolute path starts with the component Slash.
Slash == <<"/">>
Cwd == <<Slash, <<"w">>>>
isabs(p) == p # <<>> /\ p[1] = Slash
\* os.path.join(a, b): an absolute b discards a
join(a, b) == IF isabs(b) THEN b ELSE a \o b
\* the directory a path string designates: relative paths start at the working
\* directory, empty components ("a/" or "a//b") are dropped
NonEmptyComponent(c) == c # <<>>
Resolve(p) == SelectSeq(IF isabs(p) THEN p ELSE Cwd \o p, NonEmptyComponent)
Parent(p) == SubSeq(p, 1, Len(p) - 1)
\* f'{path}{suffix}': the suffix lengthens the last component
AddSuffix(p, sfx) == [p EXCEPT ![Len(p)] = @ \o sfx]

OCR_FAILED == <<"_", "o", "c", "r", "_", "f", "a", "i", "l", "e", "d">>
NO_CONTENT == <<"_", "n", "o", "_", "c", "o", "n", "t", "e", "n", "t">>
CAN_NOT_ANALYZE == <<"_", "c", "a", "n", "_", "n", "o", "t", "_", "a", "n", "a", "l", "y", "z", "e">>

\* The content of one directory: the PDF files (name without extension ->
\* document), pdf2md.log, the page images scan_k.png, the page artifacts
\* scan_k.md, the aggregate documents <name>.md and the translations.
\* doc and prev are history: the document the directory was made for and the
\* aggregate the last page stage assembled in it.
NewDir(d) == [pdfs |-> <<>>, log |-> "absent", png |-> {}, md |-> <<>>,
              agg |-> <<>>, zh |-> <<>>, doc |-> d, prev |-> <<>>]
NoDoc == <<>>
IsEmptyDir(d) == /\ DOMAIN d.pdfs = {} /\ d.log = "absent" /\ d.png = {}
                 /\ DOMAIN d.md = {} /\ DOMAIN d.agg = {} /\ DOMAIN d.zh = {}

exists(f, p) == Resolve(p) \in DOMAIN f
\* os.makedirs(path, exist_ok=True)
makedirs(f, p, d) == IF exists(f, p) THEN f ELSE Put(f, Resolve(p), NewDir(d))

\* os.rename(src, dst) of a directory: it raises when src is missing, when the
\* parent of dst is missing, or when dst is a non-empty directory.
rename_ok(f, src, dst) ==
    /\ exists(f, src)
    /\ Parent(Resolve(dst)) \in DOMAIN f
    /\ \/ ~exists(f, dst)
       \/ Resolve(dst) = Resolve(src)
       \/ IsEmptyDir(f[Resolve(dst)])
rename(f, src, dst) ==
    [p \in (DOMAIN f \ {Resolve(src)}) \cup {Resolve(dst)} |->
        IF p = Resolve(dst) THEN f[Resolve(src)] ELSE f[p]]

\* os.listdir(root) filtered by os.path.isdir: names of the first-level subdirectories
subdirs_of(f, root) ==
    {p[Len(p)] : p \in {q \in DOMAIN f : Len(q) = Len(Resolve(root)) + 1 /\ Parent(q) = Resolve(root)}}

\* ------------------------------------------------------------------------
\* workflow and process_single_pdf
\* ------------------------------------------------------------------------
InputDocs == {<<"u">>}                 \* the PDF files of pdf_folder, by name
InputDir == <<<<"i">>>>                \* pdf_folder
FreshRoot == <<<<"o">>>>               \* f"pdf_with_md_{timestamp}", a relative path

NoCall == [active |-> FALSE, pdf_dir |-> <<>>, pdf_name |-> <<>>, doc |-> NoDoc,
           output_base_folder |-> <<>>, resume |-> FALSE,
           base_name |-> <<>>, output_folder |-> <<>>,
           nimg |-> 0, image_files |-> <<>>, pos |-> 0,
           md_content |-> <<>>, need_translate |-> FALSE, ocr_error_count |-> 0,
           new_folder_path |-> <<>>, new_base |-> <<>>, ret |-> "none",
           \* history of this call
           rasterized |-> FALSE, ocrCalled |-> {}, ocrNone |-> {}, fmtCalled |-> {},
           sentinel |-> {}, visited |-> <<>>, mdAtStart |-> <<>>, prevAgg |-> <<>>,
           paged |-> FALSE, analyzeCalled |-> FALSE, translateCalled |-> FALSE,
           quarantine |-> <<>>, info |-> "unset", recognizeCalls |-> <<>>]

NoWorkflow == [mode |-> "none", output_folder |-> <<>>, todo |-> {},
               processed |-> 0, valid_handbooks |-> 0, total_pages |-> 0]

Init ==
    /\ fs = (Resolve(InputDir) :> [NewDir(NoDoc) EXCEPT !.pdfs = [s \in InputDocs |-> s]])
            @@ (Cwd :> NewDir(NoDoc))
    /\ pages \in [InputDocs -> 1..MaxPages]
    /\ pc = "idle"
    /\ wf = NoWorkflow
    /\ psp = NoCall
    /\ runs = 0
    /\ rasterCalls = [d \in InputDocs |-> 0]
    /\ env = "any"
    /\ sanIn = <<>> /\ sanOut = <<>> /\ sanPc = "off"
    /\ stJp = 0 /\ stZh = 0 /\ stOut = "off"
    /\ exN = 0 /\ exW = 1 /\ exPc = "off" /\ exProg = <<>> /\ exTask = <<>>
    /\ exFiles = <<>> /\ exWrites = <<>> /\ exWriter = <<>>
    /\ rv = <<>> /\ hb = <<>> /\ dl = <<>>

\* workflow(pdf_folder), lines 554-567: a new output root, the PDF files of pdf_folder
WorkflowFresh ==
    /\ pc = "idle"
    /\ runs = 0
    /\ runs' = 1
    /\ fs' = makedirs(fs, FreshRoot, NoDoc)
    /\ wf' = [NoWorkflow EXCEPT !.mode = "fresh", !.output_folder = FreshRoot,
                                !.todo = DOMAIN fs[Resolve(InputDir)].pdfs]
    /\ pc' = "wf_loop"
    /\ UNCHANGED <<pages, psp, rasterCalls, env>>

\* workflow(resume_dir=...), lines 515-525: the output root as the user names it
\* (relative or absolute) and its first-level subdirectories
WorkflowResume(resume_dir) ==
    /\ pc = "idle"
    /\ runs >= 1
    /\ runs < MaxRuns
    /\ runs' = runs + 1
    /\ wf' = [NoWorkflow EXCEPT !.mode = "resume", !.output_folder = resume_dir,
                                !.todo = subdirs_of(fs, resume_dir)]
    /\ pc' = "wf_loop"
    /\ UNCHANGED <<fs, pages, psp, rasterCalls, env>>

\* The call process_single_pdf(pdf_path, output_folder, resume_dir)
Call(dir, name, resume) ==
    [NoCall EXCEPT !.active = TRUE, !.pdf_dir = dir, !.pdf_name = name,
                   !.doc = fs[Resolve(dir)].pdfs[name],
                   !.output_base_folder = wf.output_folder, !.resume = resume]

\* One iteration of the loop of lines 569-576: rasterize to count the pages,
\* then call process_single_pdf.  A rasterizer error is not caught in workflow:
\* it leaves the loop with the other documents still to do.
WorkflowFreshNext ==
    /\ pc = "wf_loop"
    /\ wf.mode = "fresh"
    /\ \E name \in wf.todo :
         LET doc == fs[Resolve(InputDir)].pdfs[name] IN
         /\ rasterCalls' = [rasterCalls EXCEPT ![doc] = @ + 1]
         /\ \/ /\ wf' = [wf EXCEPT !.todo = @ \ {name}, !.total_pages = @ + pages[doc]]
               /\ psp' = Call(InputDir, name, FALSE)
               /\ pc' = "psp_enter"
            \/ /\ wf' = [wf EXCEPT !.todo = @ \ {name}]
               /\ psp' = NoCall
               /\ pc' = "aborted"
    /\ UNCHANGED <<fs, pages, runs, env>>

\* One iteration of the loop of lines 527-546: the PDF of a subdirectory, its
\* page images counted, then process_single_pdf in resume mode.  listdir of a
\* subdirectory that no longer exists raises and is not caught in workflow.
WorkflowResumeNext ==
    /\ pc = "wf_loop"
    /\ wf.mode = "resume"
    /\ \E subdir \in wf.todo :
         LET subdir_path == join(wf.output_folder, <<subdir>>) IN
         IF ~exists(fs, subdir_path)
         THEN /\ wf' = [wf EXCEPT !.todo = @ \ {subdir}]
              /\ psp' = NoCall
              /\ pc' = "aborted"
         ELSE LET d == fs[Resolve(subdir_path)] IN
              IF DOMAIN d.pdfs = {}
              THEN /\ wf' = [wf EXCEPT !.todo = @ \ {subdir}]
                   /\ psp' = NoCall
                   /\ pc' = "wf_loop"
              ELSE \E name \in DOMAIN d.pdfs :
                   /\ wf' = [wf EXCEPT !.todo = @ \ {subdir},
                                       !.total_pages = @ + Cardinality(d.png)]
                   /\ psp' = Call(subdir_path, name, TRUE)
                   /\ pc' = "psp_enter"
    /\ UNCHANGED <<fs, pages, runs, rasterCalls, env>>

\* process_single_pdf returns val to workflow (lines 542-544, 574-576)
Returned(call, val) ==
    /\ psp' = [call EXCEPT !.ret = IF val THEN "true" ELSE "false", !.active = FALSE]
    /\ wf' = [wf EXCEPT !.processed = @ + 1,
                        !.valid_handbooks = @ + (IF val THEN 1 ELSE 0)]
    /\ pc' = "wf_loop"

\* natsorted(glob('*.png')): glob yields the names scan_<k>.png in no particular
\* order; the natural sort key compares the digit run of a name as an integer.
RECURSIVE SortAscending(_)
SortAscending(S) ==
    IF S = {} THEN <<>>
    ELSE LET m == CHOOSE x \in S : \A y \in S : x <= y
         IN  <<m>> \o SortAscending(S \ {m})
\* sorted(): the names compared as strings, "scan_10.png" before "scan_2.png"
RECURSIVE DecimalDigits(_)
DecimalDigits(k) == IF k < 10 THEN <<k>> ELSE DecimalDigits(k \div 10) \o <<k % 10>>
RECURSIVE LexLeq(_, _)
LexLeq(a, b) ==
    IF a = <<>> THEN TRUE
    ELSE IF b = <<>> THEN FALSE
    ELSE IF Head(a) # Head(b) THEN Head(a) < Head(b)
    ELSE LexLeq(Tail(a), Tail(b))
RECURSIVE SortByName(_)
SortByName(S) ==
    IF S = {} THEN <<>>
    ELSE LET m == CHOOSE x \in S : \A y \in S : LexLeq(DecimalDigits(x), DecimalDigits(y))
         IN  <<m>> \o SortByName(S \ {m})
sorted_by_name(png) == SortByName(png)

natsorted(png) == SortAscending(png)

\* Lines 380-385: the sorted image list and the fresh accumulators
BeginPages(call, f) ==
    LET d == f[Resolve(call.output_folder)] IN
    [call EXCEPT !.image_files = natsorted(d.png), !.pos = 1,
                 !.md_content = <<>>, !.need_translate = FALSE, !.ocr_error_count = 0,
                 !.mdAtStart = d.md, !.prevAgg = d.prev, !.paged = TRUE]

\* the test of lines 359-366 reduced to the presence of pdf2md.log
need_convert_unless_log_exists(resume_dir, log) == ~(resume_dir /\ log # "absent")

\* the test of lines 359-366 reduced to the mode of the call
need_convert_in_fresh_mode_only(resume_dir, log) == ~resume_dir

\* Lines 359-366: rasterization is skipped in resume mode when pdf2md.log
\* holds the line "Conversion completed"
need_convert(resume_dir, log) == ~(resume_dir /\ log = "done")

\* Lines 347-366: the unit directory, the copy of the PDF, the look at pdf2md.log
PspEnter ==
    /\ pc = "psp_enter"
    /\ LET base_name == sanitize_filename(psp.pdf_name)
           output_folder == join(psp.output_base_folder, <<base_name>>)
           dir == Resolve(output_folder)
           f1 == makedirs(fs, output_folder, psp.doc)
           f2 == IF psp.pdf_name \notin DOMAIN f1[dir].pdfs /\ ~psp.resume
                 THEN [f1 EXCEPT ![dir].pdfs = Put(@, psp.pdf_name, psp.doc)]
                 ELSE f1
           convert == need_convert(psp.resume, f2[dir].log)
           call == [psp EXCEPT !.base_name = base_name, !.output_folder = output_folder]
       IN  /\ fs' = f2
           /\ IF convert
              THEN /\ psp' = call
                   /\ pc' = "psp_convert"
              ELSE /\ psp' = BeginPages(call, f2)
                   /\ pc' = "psp_pages"
    /\ UNCHANGED <<pages, wf, runs, rasterCalls, env>>

\* Lines 369-372: convert_pdf_to_images, then save_images_with_progress.  The
\* rasterizer may raise; the exporter may raise after some of the images were
\* written (any set of them, depending on the chunking); both end the call in
\* the handler of line 506.
PspConvert ==
    /\ pc = "psp_convert"
    /\ rasterCalls' = [rasterCalls EXCEPT ![psp.doc] = @ + 1]
    /\ LET dir == Resolve(psp.output_folder)
           n == pages[psp.doc]
           call == [psp EXCEPT !.rasterized = TRUE]
       IN  \/ /\ fs' = fs
              /\ Returned(call, FALSE)
           \/ \E written \in (SUBSET (0..(n - 1))) \ {0..(n - 1)} :
                /\ fs' = [fs EXCEPT ![dir].png = @ \cup written]
                /\ Returned(call, FALSE)
           \/ /\ fs' = [fs EXCEPT ![dir].png = @ \cup (0..(n - 1))]
              /\ psp' = [call EXCEPT !.nimg = n]
              /\ pc' = "psp_log"
              /\ wf' = wf
    /\ UNCHANGED <<pages, runs, env>>

\* Lines 374-385: pdf2md.log with its completion line, then the image list
PspWriteLog ==
    /\ pc = "psp_log"
    /\ LET f1 == [fs EXCEPT ![Resolve(psp.output_folder)].log = "done"] IN
       /\ fs' = f1
       /\ psp' = BeginPages(psp, f1)
    /\ pc' = "psp_pages"
    /\ UNCHANGED <<pages, wf, runs, rasterCalls, env>>

\* What format_to_markdown may return for page k: nothing, the page's text,
\* the text with a trailing newline, whitespace only, or the EMPTY_PAGE answer
\* its instructions ask for on a blank page.
PageText(k) == "p" \o ToString(k)
EMPTY_PAGE == <<"EMPTY_PAGE">>
FormatOutputsIn(e, k) ==
    IF e = "plain" THEN {<<PageText(k)>>}
    ELSE {<<>>, <<PageText(k)>>, <<PageText(k), "nl">>, <<" ">>, EMPTY_PAGE}
FormatOutputs(k) == FormatOutputsIn(env, k)

\* the cache test reduced to os.path.exists
page_state_exists_only(md, k) ==
    IF k \notin DOMAIN md THEN "absent" ELSE "valid"

\* Lines 392-402: the state of the artifact scan_k.md when page k is visited
page_state(md, k) ==
    IF k \notin DOMAIN md THEN "absent"
    ELSE IF strip(md[k]) = <<>> THEN "empty"
    ELSE "valid"

\* Lines 387-426: the body of the page loop for image_files[pos]
PspPage ==
    /\ pc = "psp_pages"
    /\ psp.pos <= Len(psp.image_files)
    /\ LET dir == Resolve(psp.output_folder)
           k == psp.image_files[psp.pos]
           md == fs[dir].md
           present == k \in DOMAIN md
           content == IF present THEN strip(md[k]) ELSE <<>>
           state == page_state(md, k)
           seen == [psp EXCEPT !.pos = @ + 1, !.visited = Put(@, k, state)]
       IN  IF state = "valid"
           THEN \* lines 396-399: the artifact is reused
                /\ psp' = [seen EXCEPT !.md_content = @ \o content \o <<"nl", "nl">>]
                /\ fs' = fs
           ELSE LET f1 == IF present THEN [fs EXCEPT ![dir].md = Del(@, k)] ELSE fs
                    \* line 407 is the only call of perform_ocr in the loop body
                    tried == [seen EXCEPT !.ocrCalled = @ \cup {k},
                                          !.recognizeCalls =
                                              Put(@, k, IF k \in DOMAIN @ THEN @[k] + 1 ELSE 1)]
                IN  \/ \* perform_ocr returns None (lines 408-411)
                       /\ psp' = [tried EXCEPT !.ocr_error_count = @ + 1,
                                               !.ocrNone = @ \cup {k}]
                       /\ fs' = f1
                    \/ \* format_to_markdown raises (lines 421-426)
                       /\ env = "any"
                       /\ psp' = [tried EXCEPT !.fmtCalled = @ \cup {k},
                                               !.ocr_error_count = @ + 1]
                       /\ fs' = f1
                    \/ \* format_to_markdown returns (lines 413-420)
                       \E markdown_output \in FormatOutputs(k) :
                         LET fmt == [tried EXCEPT !.fmtCalled = @ \cup {k},
                                        !.sentinel = IF markdown_output = EMPTY_PAGE
                                                     THEN @ \cup {k} ELSE @]
                         IN  IF markdown_output # <<>>
                             THEN /\ fs' = [f1 EXCEPT ![dir].md = Put(@, k, markdown_output)]
                                  /\ psp' = [fmt EXCEPT
                                               !.md_content = @ \o markdown_output \o <<"nl", "nl">>,
                                               !.need_translate = TRUE]
                             ELSE /\ fs' = f1
                                  /\ psp' = fmt
    /\ UNCHANGED <<pages, pc, wf, runs, rasterCalls, env>>

\* Lines 431-435, 440-444, 450-455: the quarantine rename.  new_folder_name
\* is built from output_folder, which already starts with output_base_folder,
\* and is joined to output_base_folder once more; an os.rename that raises is
\* caught at line 506.
Quarantine(f, call, suffix) ==
    LET new_folder_name == AddSuffix(call.output_folder, suffix)
        new_folder_path == join(call.output_base_folder, new_folder_name)
    IN  IF rename_ok(f, call.output_folder, new_folder_path)
        THEN /\ fs' = rename(f, call.output_folder, new_folder_path)
             /\ Returned([call EXCEPT !.quarantine = suffix], FALSE)
        ELSE /\ fs' = f
             /\ Returned(call, FALSE)

\* Line 429: ocr_error_count == len(image_files)
all_pages_failed(ocr_error_count, image_files) == ocr_error_count = Len(image_files)

\* Lines 428-444: after the loop, the all-pages-failed and the no-content checks
PspClassify ==
    /\ pc = "psp_pages"
    /\ psp.pos > Len(psp.image_files)
    /\ LET f1 == [fs EXCEPT ![Resolve(psp.output_folder)].prev = <<psp.md_content>>] IN
       IF all_pages_failed(psp.ocr_error_count, psp.image_files)
       THEN Quarantine(f1, psp, OCR_FAILED)
       ELSE IF strip(psp.md_content) = <<>>
       THEN Quarantine(f1, psp, NO_CONTENT)
       ELSE /\ fs' = f1
            /\ psp' = psp
            /\ wf' = wf
            /\ pc' = "psp_analyze"
    /\ UNCHANGED <<pages, runs, rasterCalls, env>>

\* What analyze_admission_info may hand back: an exception of the agent run,
\* None (no JSON found), JSON without the two fields, or the two fields.
Identities == {[univ |-> <<"kanji">>, date |-> <<"2", "/", "1">>]}
AnalysisOutcomes ==
    {[kind |-> k, univ |-> <<>>, date |-> <<>>] : k \in {"raise", "none", "other_json"}}
    \cup {[kind |-> "identity", univ |-> i.univ, date |-> i.date] : i \in Identities}

\* Lines 308-326 and 458-459: what becomes of a reply of the analysis agent.
\* json.loads accepts any JSON value; otherwise the greedy pattern \{.*\}
\* takes the text from the first opening to the last closing brace, so prose
\* around one object is tolerated and several fragments are not; the lookup
\* of the two keys happens in process_single_pdf and raises for a value that
\* is not an object or lacks a key.
AgentReplies ==
    {"prose", "fragments", "not_an_object", "missing_field", "object", "object_in_prose"}
OutcomeOfReply(reply) ==
    CASE reply \in {"prose", "fragments"} -> "none"
      [] reply \in {"not_an_object", "missing_field"} -> "other_json"
      [] reply \in {"object", "object_in_prose"} -> "identity"

\* the decision of lines 468-485 without the comparison of the line counts
need_translate_without_line_check(need_translate, zh, base_name, md_content) ==
    IF base_name \in DOMAIN zh THEN need_translate ELSE TRUE

\* Lines 468-485: need_translate as it stands after the look at the
\* translation; it is already True when a page was converted in this run
\* (line 420)
need_translate_after_check(need_translate, zh, base_name, md_content) ==
    IF base_name \in DOMAIN zh
    THEN need_translate
         \/ line_diff_exceeds(non_blank_lines(zh[base_name]), non_blank_lines(md_content))
    ELSE TRUE

\* Lines 446-485: identity extraction, the canonical name, the aggregate
\* document written under it, and the look at the translation
PspAnalyze ==
    /\ pc = "psp_analyze"
    /\ \E info \in AnalysisOutcomes :
         LET call == [psp EXCEPT !.analyzeCalled = TRUE, !.info = info.kind]
             dir == Resolve(psp.output_folder)
         IN  CASE info.kind = "raise" ->
                    /\ fs' = fs
                    /\ Returned(call, FALSE)
               [] info.kind = "none" ->
                    Quarantine(fs, call, CAN_NOT_ANALYZE)
               [] info.kind = "other_json" ->
                    /\ fs' = fs
                    /\ Returned(call, FALSE)
               [] info.kind = "identity" ->
                    LET base_name == sanitize_filename(info.univ \o <<"_">> \o info.date)
                        new_folder_path == join(psp.output_base_folder, <<base_name>>)
                        zh == fs[dir].zh
                        need_translate ==
                            need_translate_after_check(psp.need_translate, zh, base_name,
                                                       psp.md_content)
                    IN  /\ fs' = [fs EXCEPT ![dir].agg = Put(@, base_name, psp.md_content)]
                        /\ psp' = [call EXCEPT !.new_base = base_name,
                                               !.new_folder_path = new_folder_path,
                                               !.need_translate = need_translate]
                        /\ wf' = wf
                        /\ pc' = IF need_translate THEN "psp_translate" ELSE "psp_rename"
    /\ UNCHANGED <<pages, runs, rasterCalls, env>>

\* What translate_markdown may return: nothing, a translation that keeps the
\* line structure, or a truncated one.
TranslateOutputs(md_content) == {<<>>, md_content, <<"zh">>}

\* Lines 488-493: translate_markdown and the translation file
PspTranslate ==
    /\ pc = "psp_translate"
    /\ LET call == [psp EXCEPT !.translateCalled = TRUE]
           dir == Resolve(psp.output_folder)
       IN  \/ /\ fs' = fs
              /\ Returned(call, FALSE)
           \/ \E zh_content \in TranslateOutputs(psp.md_content) :
                /\ fs' = IF zh_content # <<>>
                         THEN [fs EXCEPT ![dir].zh = Put(@, psp.new_base, zh_content)]
                         ELSE fs
                /\ psp' = call
                /\ wf' = wf
                /\ pc' = "psp_rename"
    /\ UNCHANGED <<pages, runs, rasterCalls, env>>

\* Line 496: the unit directory takes the canonical name
PspRenameFolder ==
    /\ pc = "psp_rename"
    /\ IF rename_ok(fs, psp.output_folder, psp.new_folder_path)
       THEN /\ fs' = rename(fs, psp.output_folder, psp.new_folder_path)
            /\ psp' = psp
            /\ wf' = wf
            /\ pc' = "psp_rename_pdf"
       ELSE /\ fs' = fs
            /\ Returned(psp, FALSE)
    /\ UNCHANGED <<pages, runs, rasterCalls, env>>

\* Lines 497-501: the PDF inside it takes the canonical name
PspRenamePdf ==
    /\ pc = "psp_rename_pdf"
    /\ LET dir == Resolve(psp.new_folder_path)
           pdfs == fs[dir].pdfs
       IN  IF psp.pdf_name \in DOMAIN pdfs
           THEN /\ fs' = [fs EXCEPT ![dir].pdfs =
                             Put(Del(pdfs, psp.pdf_name), psp.new_base, pdfs[psp.pdf_name])]
                /\ Returned(psp, TRUE)
           ELSE /\ fs' = fs
                /\ Returned(psp, FALSE)
    /\ UNCHANGED <<pages, runs, rasterCalls, env>>

\* Lines 548-552 and 580-584: the summary after the loop; the run is over.  A
\* run left by an exception ends without the summary, whatever is still to do.
WorkflowEnd ==
    /\ \/ pc = "wf_loop" /\ wf.todo = {}
       \/ pc = "aborted"
    /\ pc' = "idle"
    /\ wf' = NoWorkflow
    /\ psp' = NoCall
    /\ UNCHANGED <<fs, pages, runs, rasterCalls, env>>

\* ------------------------------------------------------------------------
\* specifications of the pure functions and of the exporter
\* ------------------------------------------------------------------------
NextSan == SanitizeCall /\ UNCHANGED <<staleVars, expVars, mainVars, revVars, hbVars, dlVars>>
SpecSan == InitSan /\ [][NextSan]_vars

NextStale == StaleCheck /\ UNCHANGED <<sanVars, expVars, mainVars, revVars, hbVars, dlVars>>
SpecStale == InitStale /\ [][NextStale]_vars

NextExport ==
    \/ ExportSubmit /\ UNCHANGED <<sanVars, staleVars, mainVars, revVars, hbVars, dlVars>>
    \/ (\E i \in DOMAIN exTask : SaveImage(i)) /\ UNCHANGED <<sanVars, staleVars, mainVars, revVars, hbVars, dlVars>>
    \/ (\E i \in DOMAIN exTask : SaveFails(i)) /\ UNCHANGED <<sanVars, staleVars, mainVars, revVars, hbVars, dlVars>>
    \/ (\E i \in DOMAIN exTask : SaveChunkDone(i)) /\ UNCHANGED <<sanVars, staleVars, mainVars, revVars, hbVars, dlVars>>
    \/ ExportJoin /\ UNCHANGED <<sanVars, staleVars, mainVars, revVars, hbVars, dlVars>>
SpecExport == InitExport /\ [][NextExport]_vars

\* ------------------------------------------------------------------------
\* the pipeline: one fresh run, then resume runs over the same output root
\* ------------------------------------------------------------------------
ResumeDirs == {FreshRoot, Cwd \o FreshRoot}

Next ==
    \/ WorkflowFresh /\ UNCHANGED <<sanVars, staleVars, expVars, revVars, hbVars, dlVars>>
    \/ (\E resume_dir \in ResumeDirs : WorkflowResume(resume_dir)) /\ UNCHANGED <<sanVars, staleVars, expVars, revVars, hbVars, dlVars>>
    \/ WorkflowFreshNext /\ UNCHANGED <<sanVars, staleVars, expVars, revVars, hbVars, dlVars>>
    \/ WorkflowResumeNext /\ UNCHANGED <<sanVars, staleVars, expVars, revVars, hbVars, dlVars>>
    \/ WorkflowEnd /\ UNCHANGED <<sanVars, staleVars, expVars, revVars, hbVars, dlVars>>
    \/ PspEnter /\ UNCHANGED <<sanVars, staleVars, expVars, revVars, hbVars, dlVars>>
    \/ PspConvert /\ UNCHANGED <<sanVars, staleVars, expVars, revVars, hbVars, dlVars>>
    \/ PspWriteLog /\ UNCHANGED <<sanVars, staleVars, expVars, revVars, hbVars, dlVars>>
    \/ PspPage /\ UNCHANGED <<sanVars, staleVars, expVars, revVars, hbVars, dlVars>>
    \/ PspClassify /\ UNCHANGED <<sanVars, staleVars, expVars, revVars, hbVars, dlVars>>
    \/ PspAnalyze /\ UNCHANGED <<sanVars, staleVars, expVars, revVars, hbVars, dlVars>>
    \/ PspTranslate /\ UNCHANGED <<sanVars, staleVars, expVars, revVars, hbVars, dlVars>>
    \/ PspRenameFolder /\ UNCHANGED <<sanVars, staleVars, expVars, revVars, hbVars, dlVars>>
    \/ PspRenamePdf /\ UNCHANGED <<sanVars, staleVars, expVars, revVars, hbVars, dlVars>>

Spec == Init /\ [][Next]_vars

\* ------------------------------------------------------------------------
\* the pipeline with interrupted runs
\* ------------------------------------------------------------------------
CallStages == {"psp_enter", "psp_convert", "psp_log", "psp_pages", "psp_analyze",
               "psp_translate", "psp_rename", "psp_rename_pdf"}

\* What the interrupted statement leaves on disk: some of the page images
\* (lines 371-372), pdf2md.log without its completion line (lines 375-378),
\* the artifact of the page being converted created empty or holding the
\* beginning of the output (lines 417-418); nothing otherwise.
Interrupted(f, call, at) ==
    LET dir == Resolve(call.output_folder) IN
    CASE at = "psp_convert" ->
            {[f EXCEPT ![dir].png = @ \cup written] : written \in SUBSET (0..(pages[call.doc] - 1))}
      [] at = "psp_log" ->
            {f, [f EXCEPT ![dir].log = "partial"]}
      [] at = "psp_pages" /\ call.pos <= Len(call.image_files) ->
            LET k == call.image_files[call.pos] IN
            IF page_state(f[dir].md, k) = "valid" THEN {f}
            ELSE {f, [f EXCEPT ![dir].md = Put(@, k, <<>>)],
                     [f EXCEPT ![dir].md = Put(@, k, <<"p">>)]}
      [] OTHER -> {f}

\* The process is killed while process_single_pdf runs (lines 339-508)
Crash ==
    /\ pc \in CallStages
    /\ fs' \in Interrupted(fs, psp, pc)
    /\ pc' = "idle"
    /\ wf' = NoWorkflow
    /\ psp' = NoCall
    /\ UNCHANGED <<pages, runs, rasterCalls, env>>

\* The runs start as in Init; formatting returns the page's text.
InitCrash ==
    /\ fs = (Resolve(InputDir) :> [NewDir(NoDoc) EXCEPT !.pdfs = [s \in InputDocs |-> s]])
            @@ (Cwd :> NewDir(NoDoc))
    /\ pages \in [InputDocs -> 1..MaxPages]
    /\ pc = "idle"
    /\ wf = NoWorkflow
    /\ psp = NoCall
    /\ runs = 0
    /\ rasterCalls = [d \in InputDocs |-> 0]
    /\ env = "plain"
    /\ sanIn = <<>> /\ sanOut = <<>> /\ sanPc = "off"
    /\ stJp = 0 /\ stZh = 0 /\ stOut = "off"
    /\ exN = 0 /\ exW = 1 /\ exPc = "off" /\ exProg = <<>> /\ exTask = <<>>
    /\ exFiles = <<>> /\ exWrites = <<>> /\ exWriter = <<>>
    /\ rv = <<>> /\ hb = <<>> /\ dl = <<>>

NextCrash ==
    \/ Next
    \/ Crash /\ UNCHANGED <<sanVars, staleVars, expVars, revVars, hbVars, dlVars>>

SpecCrash == InitCrash /\ [][NextCrash]_vars

\* ------------------------------------------------------------------------
\* one fresh run over a folder of several documents
\* ------------------------------------------------------------------------
\* "a b.pdf" and "a_b.pdf": two files of pdf_folder
BatchDocs == {<<"a", " ", "b">>, <<"a", "_", "b">>}

InitBatch ==
    /\ fs = (Resolve(InputDir) :> [NewDir(NoDoc) EXCEPT !.pdfs = [s \in BatchDocs |-> s]])
            @@ (Cwd :> NewDir(NoDoc))
    /\ pages \in [BatchDocs -> 1..MaxPages]
    /\ pc = "idle"
    /\ wf = NoWorkflow
    /\ psp = NoCall
    /\ runs = 0
    /\ rasterCalls = [d \in BatchDocs |-> 0]
    /\ env = "any"
    /\ sanIn = <<>> /\ sanOut = <<>> /\ sanPc = "off"
    /\ stJp = 0 /\ stZh = 0 /\ stOut = "off"
    /\ exN = 0 /\ exW = 1 /\ exPc = "off" /\ exProg = <<>> /\ exTask = <<>>
    /\ exFiles = <<>> /\ exWrites = <<>> /\ exWriter = <<>>
    /\ rv = <<>> /\ hb = <<>> /\ dl = <<>>

NextBatch ==
    \/ WorkflowFresh /\ UNCHANGED <<sanVars, staleVars, expVars, revVars, hbVars, dlVars>>
    \/ WorkflowFreshNext /\ UNCHANGED <<sanVars, staleVars, expVars, revVars, hbVars, dlVars>>
    \/ WorkflowEnd /\ UNCHANGED <<sanVars, staleVars, expVars, revVars, hbVars, dlVars>>
    \/ PspEnter /\ UNCHANGED <<sanVars, staleVars, expVars, revVars, hbVars, dlVars>>
    \/ PspConvert /\ UNCHANGED <<sanVars, staleVars, expVars, revVars, hbVars, dlVars>>
    \/ PspWriteLog /\ UNCHANGED <<sanVars, staleVars, expVars, revVars, hbVars, dlVars>>
    \/ PspPage /\ UNCHANGED <<sanVars, staleVars, expVars, revVars, hbVars, dlVars>>
    \/ PspClassify /\ UNCHANGED <<sanVars, staleVars, expVars, revVars, hbVars, dlVars>>
    \/ PspAnalyze /\ UNCHANGED <<sanVars, staleVars, expVars, revVars, hbVars, dlVars>>
    \/ PspTranslate /\ UNCHANGED <<sanVars, staleVars, expVars, revVars, hbVars, dlVars>>
    \/ PspRenameFolder /\ UNCHANGED <<sanVars, staleVars, expVars, revVars, hbVars, dlVars>>
    \/ PspRenamePdf /\ UNCHANGED <<sanVars, staleVars, expVars, revVars, hbVars, dlVars>>

SpecBatch == InitBatch /\ [][NextBatch]_vars

\* ------------------------------------------------------------------------
\* the page stage alone, on documents of up to MaxLongDoc pages
\* ------------------------------------------------------------------------
\* A resume run that has reached line 387 on a rasterized unit: every page
\* image is on disk, each page artifact is absent or holds what an earlier
\* run wrote.  Long documents meet plain services only (OCR fails or the page
\* is formatted to its text).
ArtifactLeft(k, c) ==
    CASE c = 1 -> <<PageText(k)>>
      [] c = 2 -> <<PageText(k), "nl">>
      [] c = 3 -> <<" ">>
      [] c = 4 -> EMPTY_PAGE

InitPages ==
    \E n \in 1..MaxLongDoc :
    \E e \in (IF n <= MaxPages THEN {"any", "plain"} ELSE {"plain"}) :
    \E present \in SUBSET (0..(n - 1)) :
    \E written \in (IF e = "any" THEN [0..(n - 1) -> 1..4] ELSE {[k \in 0..(n - 1) |-> 1]}) :
        LET md == [k \in present |-> ArtifactLeft(k, written[k])]
            root == Cwd \o FreshRoot
            unit == root \o <<<<"u">>>>
            f == (unit :> [NewDir(<<"u">>) EXCEPT !.pdfs = [x \in {<<"u">>} |-> <<"u">>],
                                                  !.log = "done", !.png = 0..(n - 1), !.md = md])
                 @@ (root :> NewDir(NoDoc)) @@ (Cwd :> NewDir(NoDoc))
            call == [NoCall EXCEPT !.active = TRUE, !.pdf_dir = unit, !.pdf_name = <<"u">>,
                                   !.doc = <<"u">>, !.output_base_folder = root,
                                   !.resume = TRUE, !.base_name = <<"u">>,
                                   !.output_folder = unit]
        IN  /\ env = e
            /\ fs = f
            /\ pages = [d \in InputDocs |-> n]
            /\ pc = "psp_pages"
            /\ wf = [NoWorkflow EXCEPT !.mode = "resume", !.output_folder = root]
            /\ psp = BeginPages(call, f)
            /\ runs = 2
            /\ rasterCalls = [d \in InputDocs |-> 2]
            /\ sanIn = <<>> /\ sanOut = <<>> /\ sanPc = "off"
            /\ stJp = 0 /\ stZh = 0 /\ stOut = "off"
            /\ exN = 0 /\ exW = 1 /\ exPc = "off" /\ exProg = <<>> /\ exTask = <<>>
            /\ exFiles = <<>> /\ exWrites = <<>> /\ exWriter = <<>>
            /\ rv = <<>> /\ hb = <<>> /\ dl = <<>>

NextPages == PspPage /\ UNCHANGED <<sanVars, staleVars, expVars, revVars, hbVars, dlVars>>
SpecPages == InitPages /\ [][NextPages]_vars

\* ------------------------------------------------------------------------
\* one call of process_single_pdf, from every state of the unit directory
\* ------------------------------------------------------------------------
\* What an earlier run may have left as translation of the unit
ZhLeft == {<<>>, <<"zh">>, <<"zh", "nl", "zh">>}

\* Either workflow(pdf_folder) calls on u.pdf under a new output root, or
\* workflow(resume_dir=...) calls on the subdirectory u of an output root: the
\* rasterization was interrupted (some page images and no log, or every page
\* image and a log cut short before its completion line) or completed
\* (every page image, the log, page artifacts of some pages, and, when some
\* artifact has text, possibly a translation whose directory rename failed).
InitUnit ==
    \E n \in 1..MaxPages :
    \E mode \in {"fresh", "resume"} :
    \E root \in ResumeDirs :
    \E log_left \in {"absent", "partial", "done"} :
    \E present \in SUBSET (0..(n - 1)) :
    \E written \in [0..(n - 1) -> 1..4] :
    \E zh_left \in ZhLeft :
        LET zh_name == sanitize_filename(<<"kanji", "_", "2", "/", "1">>)
            done == log_left = "done"
            left == [NewDir(<<"u">>) EXCEPT
                        !.pdfs = [x \in {<<"u">>} |-> <<"u">>],
                        !.log = log_left,
                        !.png = IF log_left = "absent" THEN present ELSE 0..(n - 1),
                        !.md = IF done THEN [k \in present |-> ArtifactLeft(k, written[k])]
                               ELSE <<>>,
                        !.zh = IF zh_left = <<>> THEN <<>> ELSE (zh_name :> zh_left)]
            base == (Resolve(InputDir) :> [NewDir(NoDoc) EXCEPT !.pdfs = [s \in InputDocs |-> s]])
                    @@ (Resolve(FreshRoot) :> NewDir(NoDoc))
                    @@ (Cwd :> NewDir(NoDoc))
            f == IF mode = "fresh" THEN base
                 ELSE (Resolve(root \o <<<<"u">>>>) :> left) @@ base
        IN  /\ (mode = "fresh" => (root = FreshRoot /\ log_left = "absent" /\ present = {}))
            /\ (log_left = "partial" => present = {})
            /\ (~done => (written = [k \in 0..(n - 1) |-> 1] /\ zh_left = <<>>))
            /\ (zh_left # <<>> => \E k \in present : written[k] # 3)
            /\ env = "any"
            /\ fs = f
            /\ pages = [d \in InputDocs |-> n]
            /\ pc = "psp_enter"
            /\ wf = [NoWorkflow EXCEPT !.mode = mode, !.output_folder = root]
            /\ psp = [NoCall EXCEPT !.active = TRUE,
                                    !.pdf_dir = IF mode = "fresh" THEN InputDir
                                                ELSE root \o <<<<"u">>>>,
                                    !.pdf_name = <<"u">>, !.doc = <<"u">>,
                                    !.output_base_folder = root,
                                    !.resume = (mode = "resume")]
            /\ runs = 1
            /\ rasterCalls = [d \in InputDocs |-> IF mode = "fresh" THEN 1 ELSE 0]
            /\ sanIn = <<>> /\ sanOut = <<>> /\ sanPc = "off"
            /\ stJp = 0 /\ stZh = 0 /\ stOut = "off"
            /\ exN = 0 /\ exW = 1 /\ exPc = "off" /\ exProg = <<>> /\ exTask = <<>>
            /\ exFiles = <<>> /\ exWrites = <<>> /\ exWriter = <<>>
            /\ rv = <<>> /\ hb = <<>> /\ dl = <<>>

NextUnit ==
    \/ PspEnter /\ UNCHANGED <<sanVars, staleVars, expVars, revVars, hbVars, dlVars>>
    \/ PspConvert /\ UNCHANGED <<sanVars, staleVars, expVars, revVars, hbVars, dlVars>>
    \/ PspWriteLog /\ UNCHANGED <<sanVars, staleVars, expVars, revVars, hbVars, dlVars>>
    \/ PspPage /\ UNCHANGED <<sanVars, staleVars, expVars, revVars, hbVars, dlVars>>
    \/ PspClassify /\ UNCHANGED <<sanVars, staleVars, expVars, revVars, hbVars, dlVars>>
    \/ PspAnalyze /\ UNCHANGED <<sanVars, staleVars, expVars, revVars, hbVars, dlVars>>
    \/ PspTranslate /\ UNCHANGED <<sanVars, staleVars, expVars, revVars, hbVars, dlVars>>
    \/ PspRenameFolder /\ UNCHANGED <<sanVars, staleVars, expVars, revVars, hbVars, dlVars>>
    \/ PspRenamePdf /\ UNCHANGED <<sanVars, staleVars, expVars, revVars, hbVars, dlVars>>

SpecUnit == InitUnit /\ [][NextUnit]_vars

\* ------------------------------------------------------------------------
\* process_single_pdf of src/03_pdf2img2md_make_index.py (the Google Vision /
\* Gemini pipeline): one call made by its workflow on a new output root
\* ------------------------------------------------------------------------
IndexResumeDir == <<<<"r">>>>          \* the --resume argument, an earlier output root

\* shutil.rmtree(path)
rmtree(f, p) == [q \in DOMAIN f \ {Resolve(p)} |-> f[q]]

\* Lines 313-317: shutil.copy2 of every file of src into dst, overwriting
copy_files(src, dst) ==
    [dst EXCEPT !.pdfs = src.pdfs @@ dst.pdfs,
                !.log = IF src.log # "absent" THEN src.log ELSE dst.log,
                !.png = dst.png \cup src.png,
                !.md = src.md @@ dst.md,
                !.agg = src.agg @@ dst.agg,
                !.zh = src.zh @@ dst.zh]

\* The states of <resume_dir>/u an earlier run may have left: nothing, page
\* images without a log, or a completed rasterization with page artifacts.
InitIndex ==
    \E n \in 1..MaxPages :
    \E resume \in BOOLEAN :
    \E old \in {"none", "images", "done"} :
    \E present \in SUBSET (0..(n - 1)) :
    \E written \in [0..(n - 1) -> 1..3] :
        LET md == IF old = "done" THEN [k \in present |-> ArtifactLeft(k, written[k])] ELSE <<>>
            left == [NewDir(<<"u">>) EXCEPT
                        !.pdfs = [x \in {<<"u">>} |-> <<"u">>],
                        !.log = IF old = "done" THEN "done" ELSE "absent",
                        !.png = IF old = "done" THEN 0..(n - 1) ELSE present,
                        !.md = md]
            base == (Resolve(InputDir) :> [NewDir(NoDoc) EXCEPT !.pdfs = [s \in InputDocs |-> s]])
                    @@ (Resolve(FreshRoot) :> NewDir(NoDoc))
                    @@ (Resolve(IndexResumeDir) :> NewDir(NoDoc))
                    @@ (Cwd :> NewDir(NoDoc))
            f == IF old = "none" THEN base
                 ELSE (Resolve(IndexResumeDir \o <<<<"u">>>>) :> left) @@ base
        IN  /\ (old # "done" => written = [k \in 0..(n - 1) |-> 1])
            /\ (old = "none" => present = {})
            /\ env = "any"
            /\ fs = f
            /\ pages = [d \in InputDocs |-> n]
            /\ pc = "mi_enter"
            /\ wf = [NoWorkflow EXCEPT !.mode = "fresh", !.output_folder = FreshRoot]
            /\ psp = [NoCall EXCEPT !.active = TRUE, !.pdf_dir = InputDir, !.pdf_name = <<"u">>,
                                    !.doc = <<"u">>, !.output_base_folder = FreshRoot,
                                    !.resume = resume]
            /\ runs = 1
            /\ rasterCalls = [d \in InputDocs |-> 1]
            /\ sanIn = <<>> /\ sanOut = <<>> /\ sanPc = "off"
            /\ stJp = 0 /\ stZh = 0 /\ stOut = "off"
            /\ exN = 0 /\ exW = 1 /\ exPc = "off" /\ exProg = <<>> /\ exTask = <<>>
            /\ exFiles = <<>> /\ exWrites = <<>> /\ exWriter = <<>>
            /\ rv = <<>> /\ hb = <<>> /\ dl = <<>>

\* return of the call
MiReturn(call, val) ==
    /\ psp' = [call EXCEPT !.ret = IF val THEN "true" ELSE "false", !.active = FALSE]
    /\ pc' = "mi_done"

\* Lines 302-330: the unit directory, the files of <resume_dir>/<base_name>
\* copied into it, the look at pdf2md.log, the copy of the PDF
MiEnter ==
    /\ pc = "mi_enter"
    /\ LET base_name == sanitize_filename(psp.pdf_name)
           output_folder == join(psp.output_base_folder, <<base_name>>)
           dir == Resolve(output_folder)
           resume_folder == join(IndexResumeDir, <<base_name>>)
           f1 == makedirs(fs, output_folder, psp.doc)
           f2 == IF psp.resume /\ exists(f1, resume_folder)
                 THEN [f1 EXCEPT ![dir] = copy_files(f1[Resolve(resume_folder)], @)]
                 ELSE f1
           convert == f2[dir].log # "done"
           f3 == IF psp.pdf_name \notin DOMAIN f2[dir].pdfs
                 THEN [f2 EXCEPT ![dir].pdfs = Put(@, psp.pdf_name, psp.doc)]
                 ELSE f2
           call == [psp EXCEPT !.base_name = base_name, !.output_folder = output_folder]
       IN  /\ fs' = f3
           /\ IF convert
              THEN /\ psp' = call
                   /\ pc' = "mi_convert"
              ELSE /\ psp' = BeginPages(call, f3)
                   /\ pc' = "mi_pages"
    /\ UNCHANGED <<pages, wf, runs, rasterCalls, env>>

\* Lines 333-336: convert_pdf_to_images, then save_images_with_progress
MiConvert ==
    /\ pc = "mi_convert"
    /\ rasterCalls' = [rasterCalls EXCEPT ![psp.doc] = @ + 1]
    /\ LET dir == Resolve(psp.output_folder)
           n == pages[psp.doc]
           call == [psp EXCEPT !.rasterized = TRUE]
       IN  \/ /\ fs' = fs
              /\ MiReturn(call, FALSE)
           \/ \E written \in (SUBSET (0..(n - 1))) \ {0..(n - 1)} :
                /\ fs' = [fs EXCEPT ![dir].png = @ \cup written]
                /\ MiReturn(call, FALSE)
           \/ /\ fs' = [fs EXCEPT ![dir].png = @ \cup (0..(n - 1))]
              /\ psp' = [call EXCEPT !.nimg = n]
              /\ pc' = "mi_log"
    /\ UNCHANGED <<pages, wf, runs, env>>

\* Lines 338-348: pdf2md.log with its completion line, then the image list
MiWriteLog ==
    /\ pc = "mi_log"
    /\ LET f1 == [fs EXCEPT ![Resolve(psp.output_folder)].log = "done"] IN
       /\ fs' = f1
       /\ psp' = BeginPages(psp, f1)
    /\ pc' = "mi_pages"
    /\ UNCHANGED <<pages, wf, runs, rasterCalls, env>>

\* Lines 350-383: the body of the page loop.  ocr_by_google_cloud raises on an
\* API error, and the handler of line 378 raises again, which ends the call at
\* line 439; format_to_markdown_ref_image returns None on its own errors.
MiPage ==
    /\ pc = "mi_pages"
    /\ psp.pos <= Len(psp.image_files)
    /\ LET dir == Resolve(psp.output_folder)
           k == psp.image_files[psp.pos]
           md == fs[dir].md
           present == k \in DOMAIN md
           content == IF present THEN strip(md[k]) ELSE <<>>
           state == page_state(md, k)
           seen == [psp EXCEPT !.pos = @ + 1, !.visited = Put(@, k, state)]
       IN  IF state = "valid"
           THEN /\ psp' = [seen EXCEPT !.md_content = @ \o content \o <<"nl", "nl">>]
                /\ fs' = fs
                /\ pc' = pc
           ELSE LET f1 == IF present THEN [fs EXCEPT ![dir].md = Del(@, k)] ELSE fs
                    tried == [seen EXCEPT !.ocrCalled = @ \cup {k}]
                IN  \/ /\ fs' = f1
                       /\ MiReturn(tried, FALSE)
                    \/ \E markdown_output \in FormatOutputs(k) :
                         LET fmt == [tried EXCEPT !.fmtCalled = @ \cup {k}]
                         IN  /\ pc' = pc
                             /\ IF markdown_output # <<>>
                                THEN /\ fs' = [f1 EXCEPT ![dir].md = Put(@, k, markdown_output)]
                                     /\ psp' = [fmt EXCEPT
                                                  !.md_content = @ \o markdown_output \o <<"nl", "nl">>,
                                                  !.need_translate = TRUE]
                                ELSE /\ fs' = f1
                                     /\ psp' = fmt
    /\ UNCHANGED <<pages, wf, runs, rasterCalls, env>>

\* What analyze_admission_info of this pipeline may hand back (lines 235-281):
\* None after an error, "NO" when the answer holds no JSON object (the answer
\* its prompt asks for on a document that is not an admission handbook), JSON
\* without the two fields, or the two fields.
IndexAnalysisOutcomes ==
    {[kind |-> k, univ |-> <<>>, date |-> <<>>] : k \in {"none", "NO", "other_json"}}
    \cup {[kind |-> "identity", univ |-> i.univ, date |-> i.date] : i \in Identities}

\* Lines 385-418: the document check; a document answered "NO" has its unit
\* directory removed.  json.loads(None), a missing field and the division by
\* max(zh_lines, jp_lines) = 0 raise and end the call at line 435.
MiAnalyze ==
    /\ pc = "mi_pages"
    /\ psp.pos > Len(psp.image_files)
    /\ \E info \in IndexAnalysisOutcomes :
         LET call == [psp EXCEPT !.analyzeCalled = TRUE]
             dir == Resolve(psp.output_folder)
         IN  CASE info.kind = "NO" ->
                    /\ fs' = rmtree(fs, psp.output_folder)
                    /\ MiReturn(call, FALSE)
               [] info.kind \in {"none", "other_json"} ->
                    /\ fs' = fs
                    /\ MiReturn(call, FALSE)
               [] info.kind = "identity" ->
                    LET base_name == sanitize_filename(info.univ \o <<"_">> \o info.date)
                        new_folder_path == join(psp.output_base_folder, <<base_name>>)
                        zh == fs[dir].zh
                        f1 == [fs EXCEPT ![dir].agg = Put(@, base_name, psp.md_content)]
                        zh_lines == IF base_name \in DOMAIN zh THEN non_blank_lines(zh[base_name]) ELSE 0
                        jp_lines == non_blank_lines(psp.md_content)
                        need_translate ==
                            IF base_name \in DOMAIN zh
                            THEN psp.need_translate
                                 \/ Abs(zh_lines - jp_lines) * 100
                                        > StaleThreshold * Max2(zh_lines, jp_lines)
                            ELSE psp.need_translate
                        named == [call EXCEPT !.new_base = base_name,
                                              !.new_folder_path = new_folder_path,
                                              !.need_translate = need_translate]
                    IN  /\ fs' = f1
                        /\ IF base_name \in DOMAIN zh /\ Max2(zh_lines, jp_lines) = 0
                           THEN MiReturn(named, FALSE)
                           ELSE /\ psp' = named
                                /\ pc' = IF need_translate THEN "mi_translate" ELSE "mi_rename"
    /\ UNCHANGED <<pages, wf, runs, rasterCalls, env>>

\* Lines 420-426: translate_markdown (None on its own errors) and the
\* translation file
MiTranslate ==
    /\ pc = "mi_translate"
    /\ LET call == [psp EXCEPT !.translateCalled = TRUE]
           dir == Resolve(psp.output_folder)
       IN  \E zh_content \in TranslateOutputs(psp.md_content) :
                /\ fs' = IF zh_content # <<>>
                         THEN [fs EXCEPT ![dir].zh = Put(@, psp.new_base, zh_content)]
                         ELSE fs
                /\ psp' = call
                /\ pc' = "mi_rename"
    /\ UNCHANGED <<pages, wf, runs, rasterCalls, env>>

\* Lines 428-437: the unit directory and the PDF inside it take the canonical name
MiRename ==
    /\ pc = "mi_rename"
    /\ IF rename_ok(fs, psp.output_folder, psp.new_folder_path)
       THEN LET f1 == rename(fs, psp.output_folder, psp.new_folder_path)
                dir == Resolve(psp.new_folder_path)
                pdfs == f1[dir].pdfs
            IN  IF psp.pdf_name \in DOMAIN pdfs
                THEN /\ fs' = [f1 EXCEPT ![dir].pdfs =
                                  Put(Del(pdfs, psp.pdf_name), psp.new_base, pdfs[psp.pdf_name])]
                     /\ MiReturn(psp, TRUE)
                ELSE /\ fs' = f1
                     /\ MiReturn(psp, FALSE)
       ELSE /\ fs' = fs
            /\ MiReturn(psp, FALSE)
    /\ UNCHANGED <<pages, wf, runs, rasterCalls, env>>

NextIndex ==
    \/ MiEnter /\ UNCHANGED <<sanVars, staleVars, expVars, revVars, hbVars, dlVars>>
    \/ MiConvert /\ UNCHANGED <<sanVars, staleVars, expVars, revVars, hbVars, dlVars>>
    \/ MiWriteLog /\ UNCHANGED <<sanVars, staleVars, expVars, revVars, hbVars, dlVars>>
    \/ MiPage /\ UNCHANGED <<sanVars, staleVars, expVars, revVars, hbVars, dlVars>>
    \/ MiAnalyze /\ UNCHANGED <<sanVars, staleVars, expVars, revVars, hbVars, dlVars>>
    \/ MiTranslate /\ UNCHANGED <<sanVars, staleVars, expVars, revVars, hbVars, dlVars>>
    \/ MiRename /\ UNCHANGED <<sanVars, staleVars, expVars, revVars, hbVars, dlVars>>

SpecIndex == InitIndex /\ [][NextIndex]_vars

\* ------------------------------------------------------------------------
\* review_workflow
\* ------------------------------------------------------------------------
REVIEW_MIN_LINES == 10
REVIEW_THRESHOLD == 20
MaxReviews == 1      \* review runs over one output root

\* len(text.split('\n')): every line counts, blank ones and the empty piece
\* after a trailing newline included
len_split_lines(s) == Cardinality({i \in 1..Len(s) : s[i] = "nl"}) + 1

\* Lines 669-683: needs_translation after the look at the translation;
\* line_diff_percentage = abs(zh_line_count - jp_line_count) / jp_line_count * 100
\* is accepted up to 20.
review_needs_translation(has_zh, zh_line_count, jp_line_count) ==
    ~(/\ has_zh
      /\ jp_line_count > 0
      /\ Abs(zh_line_count - jp_line_count) * 100 <= REVIEW_THRESHOLD * jp_line_count)

\* A page text of ten lines, and the page text a unit was left with
LongText(k) == [i \in 1..19 |-> IF i % 2 = 1 THEN PageText(k) ELSE "nl"]
PageDoc(k, long) == IF long THEN LongText(k) ELSE <<PageText(k)>>

\* md_content += content + '\n\n' over the pages in order
RECURSIVE Assemble(_, _)
Assemble(texts, ks) ==
    IF ks = <<>> THEN <<>>
    ELSE texts[Head(ks)] \o <<"nl", "nl">> \o Assemble(texts, Tail(ks))

\* scan_<k>, the name of a page artifact without its extension
PageStem(k) == <<"s", "c", "a", "n", "_", ToString(k)>>

\* Lines 614-615 and 688: the files ending in .md and not in 中文.md, by name
\* without extension: the page artifacts and the aggregate documents
md_files(d) ==
    [name \in {PageStem(k) : k \in DOMAIN d.md} \cup DOMAIN d.agg |->
        IF name \in DOMAIN d.agg THEN d.agg[name]
        ELSE d.md[CHOOSE k \in DOMAIN d.md : PageStem(k) = name]]

NoReview == [output_folder |-> <<>>, todo |-> {}, reviews |-> 0,
             \* history of the directory reviewed last
             subdir |-> <<>>, regenerated |-> FALSE, log_at_start |-> "absent",
             ocr_on_valid |-> {}, decided |-> FALSE, jp |-> <<>>, zh |-> <<>>,
             needs_translation |-> FALSE, cleaned |-> FALSE]

\* An output root holding one unit as workflow left it: under its original
\* name with the artifacts of some pages, or under its canonical name with
\* every page artifact, the aggregate document and possibly a translation.
InitReview ==
    \E n \in 1..MaxPages :
    \E shape \in {"live", "complete"} :
    \E long \in BOOLEAN :
    \E present \in SUBSET (0..(n - 1)) :
    \E zh_left \in {"none", "same", "compact", "short"} :
        LET canonical == sanitize_filename(<<"kanji", "_", "2", "/", "1">>)
            name == IF shape = "live" THEN <<"u">> ELSE canonical
            texts == [k \in 0..(n - 1) |-> PageDoc(k, long)]
            aggregate == Assemble(texts, SortAscending(0..(n - 1)))
            unit == [NewDir(<<"u">>) EXCEPT
                        !.pdfs = (name :> <<"u">>),
                        !.log = "done",
                        !.png = 0..(n - 1),
                        !.md = [k \in present |-> texts[k]],
                        !.agg = IF shape = "live" THEN <<>> ELSE (canonical :> aggregate),
                        !.zh = CASE zh_left = "none" -> <<>>
                                 [] zh_left = "same" -> (canonical :> aggregate)
                                 [] zh_left = "compact" ->
                                        (canonical :> SelectSeq(aggregate, LAMBDA t : t # "nl"))
                                 [] zh_left = "short" -> (canonical :> <<"zh">>)]
        IN  /\ (shape = "live" => zh_left = "none")
            /\ (shape = "complete" => present = 0..(n - 1))
            /\ fs = (Resolve(FreshRoot \o <<name>>) :> unit)
                    @@ (Resolve(InputDir) :> NewDir(NoDoc))
                    @@ (Resolve(FreshRoot) :> NewDir(NoDoc))
                    @@ (Cwd :> NewDir(NoDoc))
            /\ pages = [d \in InputDocs |-> n]
            /\ pc = "idle"
            /\ wf = NoWorkflow
            /\ psp = NoCall
            /\ runs = 1
            /\ rasterCalls = [d \in InputDocs |-> 2]
            /\ env = "plain"
            /\ rv = NoReview
            /\ sanIn = <<>> /\ sanOut = <<>> /\ sanPc = "off"
            /\ stJp = 0 /\ stZh = 0 /\ stOut = "off"
            /\ exN = 0 /\ exW = 1 /\ exPc = "off" /\ exProg = <<>> /\ exTask = <<>>
            /\ exFiles = <<>> /\ exWrites = <<>> /\ exWriter = <<>>
            /\ hb = <<>> /\ dl = <<>>

\* Lines 593-607: the first-level subdirectories of the output root
ReviewStart ==
    /\ pc = "idle"
    /\ rv.reviews < MaxReviews
    /\ \E output_folder \in ResumeDirs :
         rv' = [NoReview EXCEPT !.output_folder = output_folder,
                                !.todo = subdirs_of(fs, output_folder),
                                !.reviews = rv.reviews + 1]
    /\ pc' = "rv_loop"
    /\ UNCHANGED <<fs, pages, wf, psp, runs, rasterCalls, env>>

\* Lines 669-708 for the directory at path dir whose Japanese document has
\* jp_line_count lines: the look at the translation, the translation, and the
\* removal of the page images (lines 710-712).  f is the file system and seen
\* the history so far.
ReviewTranslate(f, dir, jp_line_count, seen) ==
    LET d == f[dir]
        has_zh == DOMAIN d.zh # {}
        cleaned == [f EXCEPT ![dir].png = {}]
    IN  \E zh_name \in (IF has_zh THEN DOMAIN d.zh ELSE {<<>>}) :
        \E jp_name \in DOMAIN md_files(d) :
            LET zh_line_count == IF has_zh THEN len_split_lines(d.zh[zh_name]) ELSE 0
                needs_translation ==
                    review_needs_translation(has_zh, zh_line_count, jp_line_count)
                md_content == md_files(d)[jp_name]
                decided == [seen EXCEPT !.decided = has_zh,
                                        !.zh = IF has_zh THEN d.zh[zh_name] ELSE <<>>,
                                        !.needs_translation = needs_translation,
                                        !.cleaned = TRUE]
            IN  IF ~needs_translation
                THEN /\ fs' = cleaned
                     /\ rv' = decided
                     /\ pc' = "rv_loop"
                ELSE \/ \* translate_markdown raises: nothing catches it
                        /\ fs' = f
                        /\ rv' = [decided EXCEPT !.cleaned = FALSE]
                        /\ pc' = "aborted"
                     \/ \E zh_content \in TranslateOutputs(md_content) :
                          /\ fs' = IF zh_content # <<>>
                                   THEN [cleaned EXCEPT ![dir].zh = Put(@, jp_name, zh_content)]
                                   ELSE cleaned
                          /\ rv' = decided
                          /\ pc' = "rv_loop"

\* One iteration of the loop of lines 608-712.  os.listdir has no order, so
\* pdf_files[0], md_files[0] and zh_md_files[0] are any of the files.
ReviewDir ==
    /\ pc = "rv_loop"
    /\ \E subdir \in rv.todo :
         LET dir == Resolve(join(rv.output_folder, <<subdir>>))
             d == fs[dir]
             start == [rv EXCEPT !.todo = @ \ {subdir}, !.subdir = subdir,
                                 !.regenerated = FALSE, !.log_at_start = d.log,
                                 !.ocr_on_valid = {}, !.decided = FALSE,
                                 !.jp = <<>>, !.zh = <<>>,
                                 !.needs_translation = FALSE, !.cleaned = FALSE]
         IN  IF DOMAIN d.pdfs = {}
             THEN \* lines 617-619
                  /\ fs' = fs /\ rv' = start /\ pc' = "rv_loop"
                  /\ rasterCalls' = rasterCalls
             ELSE
             \E pdf_name \in DOMAIN d.pdfs :
             \E first_md \in (IF DOMAIN md_files(d) = {} THEN {<<>>} ELSE DOMAIN md_files(d)) :
                LET doc == d.pdfs[pdf_name]
                    n == pages[doc]
                    has_md == DOMAIN md_files(d) # {}
                    needs_md_regeneration ==
                        ~(has_md /\ len_split_lines(md_files(d)[first_md]) >= REVIEW_MIN_LINES)
                IN  IF ~needs_md_regeneration
                    THEN /\ rasterCalls' = rasterCalls
                         /\ ReviewTranslate(fs, dir, len_split_lines(md_files(d)[first_md]),
                                            [start EXCEPT !.jp = md_files(d)[first_md]])
                    ELSE \* lines 636-666
                         /\ rasterCalls' = [rasterCalls EXCEPT ![doc] = @ + 1]
                         /\ \/ \* the rasterizer or a formatting call raises
                               /\ fs' = fs
                               /\ rv' = [start EXCEPT !.regenerated = TRUE]
                               /\ pc' = "aborted"
                            \/ \E converted \in SUBSET (d.png \cup (0..(n - 1))) :
                                 LET f1 == [fs EXCEPT ![dir].png = @ \cup (0..(n - 1))]
                                     image_files == natsorted(f1[dir].png)
                                     outputs == [k \in converted |-> <<PageText(k)>>]
                                     md_content ==
                                         Assemble(outputs,
                                                  SelectSeq(image_files,
                                                            LAMBDA k : k \in converted))
                                     again == [start EXCEPT
                                                 !.regenerated = TRUE,
                                                 !.ocr_on_valid =
                                                     {k \in f1[dir].png :
                                                        page_state(d.md, k) = "valid"},
                                                 !.jp = md_content]
                                 IN  IF md_content = <<>>
                                     THEN \* lines 664-666: continue
                                          /\ fs' = f1
                                          /\ rv' = again
                                          /\ pc' = "rv_loop"
                                     ELSE ReviewTranslate(
                                              [f1 EXCEPT ![dir].agg = Put(@, pdf_name, md_content)],
                                              dir, len_split_lines(md_content), again)
    /\ UNCHANGED <<pages, wf, psp, runs, env>>

\* Lines 714-720: the report; the run is over
ReviewEnd ==
    /\ pc = "rv_loop"
    /\ rv.todo = {}
    /\ pc' = "idle"
    /\ UNCHANGED <<fs, pages, wf, psp, runs, rasterCalls, env, rv>>

NextReview ==
    \/ ReviewStart /\ UNCHANGED <<sanVars, staleVars, expVars, hbVars, dlVars>>
    \/ ReviewDir /\ UNCHANGED <<sanVars, staleVars, expVars, hbVars, dlVars>>
    \/ ReviewEnd /\ UNCHANGED <<sanVars, staleVars, expVars, hbVars, dlVars>>
    \/ (\E resume_dir \in ResumeDirs : WorkflowResume(resume_dir)) /\ UNCHANGED <<sanVars, staleVars, expVars, revVars, hbVars, dlVars>>
    \/ WorkflowResumeNext /\ UNCHANGED <<sanVars, staleVars, expVars, revVars, hbVars, dlVars>>
    \/ WorkflowEnd /\ UNCHANGED <<sanVars, staleVars, expVars, revVars, hbVars, dlVars>>
    \/ PspEnter /\ UNCHANGED <<sanVars, staleVars, expVars, revVars, hbVars, dlVars>>
    \/ PspConvert /\ UNCHANGED <<sanVars, staleVars, expVars, revVars, hbVars, dlVars>>
    \/ PspWriteLog /\ UNCHANGED <<sanVars, staleVars, expVars, revVars, hbVars, dlVars>>
    \/ PspPage /\ UNCHANGED <<sanVars, staleVars, expVars, revVars, hbVars, dlVars>>
    \/ PspClassify /\ UNCHANGED <<sanVars, staleVars, expVars, revVars, hbVars, dlVars>>
    \/ PspAnalyze /\ UNCHANGED <<sanVars, staleVars, expVars, revVars, hbVars, dlVars>>
    \/ PspTranslate /\ UNCHANGED <<sanVars, staleVars, expVars, revVars, hbVars, dlVars>>
    \/ PspRenameFolder /\ UNCHANGED <<sanVars, staleVars, expVars, revVars, hbVars, dlVars>>
    \/ PspRenamePdf /\ UNCHANGED <<sanVars, staleVars, expVars, revVars, hbVars, dlVars>>

SpecReview == InitReview /\ [][NextReview]_vars

\* ------------------------------------------------------------------------
\* process_handbooks_pdf: the workers of the workflow engine
\* ------------------------------------------------------------------------
MaxResets == 1       \* times a stuck work is put back to not_started

NOT_STARTED == "not_started"
IN_PROGRESS == "in_progress"
DONE == "done"

\* Lines 333-339: the works of a project, in template order
WorkNames == <<"01_pdf2img", "02_ocr", "03_translate", "04_analysis", "05_output">>

\* sorted(project_path.glob('scan_*.png')): the paths compared as strings
sorted_paths(png) == SortByName(png)

\* the test reduced to a constant
truthy_always(content) == TRUE

\* `if content:` / `len(content) == 0`
truthy(content) == content # <<>>

\* buffalo.get_a_job(): the first work of the project that is not done, when
\* it has not been started; 0 when there is none
get_a_job(status) ==
    LET open == {i \in DOMAIN status : status[i] # DONE}
    IN  IF open = {} THEN 0
        ELSE LET first == CHOOSE i \in open : \A j \in open : i <= j
             IN  IF status[first] = NOT_STARTED THEN first ELSE 0

NoJob == [work |-> 0, status |-> "none", failed |-> FALSE]

\* Lines 85-104: a project as create_project_for_pdf leaves it
NewProject(n, pdf) ==
    [pc |-> "idle", work |-> 0,
     status |-> [i \in DOMAIN WorkNames |-> NOT_STARTED],
     pdf |-> pdf, n |-> n, png |-> {}, md |-> <<>>, files |-> <<>>,
     retry_limit |-> 0, pos |-> 0, image_files |-> <<>>, md_files |-> {},
     md_content |-> <<>>,
     job_count |-> 0, success_count |-> 0, failed_count |-> 0,
     \* history
     folded |-> <<>>, cached |-> {}, last |-> NoJob, resets |-> 0]

InitHandbook ==
    \E n \in 1..MaxLongDoc :
    \E pdf \in BOOLEAN :
        /\ hb = NewProject(n, pdf)
        /\ fs = <<>> /\ pages = <<>> /\ pc = "off" /\ wf = <<>> /\ psp = <<>>
        /\ runs = 0 /\ rasterCalls = <<>> /\ env = "off"
        /\ sanIn = <<>> /\ sanOut = <<>> /\ sanPc = "off"
        /\ stJp = 0 /\ stZh = 0 /\ stOut = "off"
        /\ exN = 0 /\ exW = 1 /\ exPc = "off" /\ exProg = <<>> /\ exTask = <<>>
        /\ exFiles = <<>> /\ exWrites = <<>> /\ exWriter = <<>>
        /\ rv = <<>> /\ dl = <<>>

\* Lines 362-369 after the worker returned: the job counted by its status
Counted(h, failed) ==
    LET s == h.status[h.work] IN
    [h EXCEPT !.pc = "idle",
              !.failed_count = IF s = IN_PROGRESS THEN @ + 1 ELSE @,
              !.success_count = IF s = DONE THEN @ + 1 ELSE @,
              !.last = [work |-> h.work, status |-> s, failed |-> failed]]

\* A worker gives up: it returns without touching the status
GiveUp(h) == Counted(h, TRUE)

\* The handler of a retry loop: one more round, or give up
RetryOrGiveUp(h, again) ==
    IF h.retry_limit > 0
    THEN [h EXCEPT !.retry_limit = @ - 1, !.pc = again]
    ELSE GiveUp(h)

\* Lines 349-359: the next job, or the end of the run
HbGetJob ==
    /\ hb.pc = "idle"
    /\ LET w == get_a_job(hb.status) IN
         hb' = IF w = 0 THEN [hb EXCEPT !.pc = "end"]
               ELSE [hb EXCEPT !.pc = "enter", !.work = w, !.job_count = @ + 1]

\* Lines 109-110, 146-147, 225-226, 278-279: set_status(IN_PROGRESS) and
\* save_project on entry; lines 327-330: output sets DONE at once
HbEnter ==
    /\ hb.pc = "enter"
    /\ hb' = IF hb.work = 5
             THEN Counted([hb EXCEPT !.status[5] = DONE], FALSE)
             ELSE [hb EXCEPT !.status[hb.work] = IN_PROGRESS,
                             !.retry_limit = 1,
                             !.pc = CASE hb.work = 1 -> "pdf2img"
                                      [] hb.work = 2 -> "ocr"
                                      [] hb.work = 3 -> "translate"
                                      [] hb.work = 4 -> "analysis"]

\* Lines 115-123 and 133-141: one round of pdf2img up to convert_from_path
HbPdf2img ==
    /\ hb.pc = "pdf2img"
    /\ \/ /\ ~hb.pdf
          /\ hb' = GiveUp(hb)
       \/ /\ hb.pdf
          /\ \/ hb' = RetryOrGiveUp(hb, "pdf2img")
             \/ hb' = [hb EXCEPT !.pc = "pdf2img_save", !.pos = 0]

\* Lines 125-126: image.save of scan_<pos>.png, which may raise
HbSaveImage ==
    /\ hb.pc = "pdf2img_save"
    /\ hb.pos < hb.n
    /\ \/ hb' = [hb EXCEPT !.png = @ \cup {hb.pos}, !.pos = @ + 1]
       \/ hb' = RetryOrGiveUp(hb, "pdf2img")

\* Lines 128-131: every image saved
HbImagesDone ==
    /\ hb.pc = "pdf2img_save"
    /\ hb.pos = hb.n
    /\ hb' = Counted([hb EXCEPT !.status[1] = DONE], FALSE)

\* Lines 150-161: the image list and the list of md files
HbOcrStart ==
    /\ hb.pc = "ocr"
    /\ LET image_files == sorted_paths(hb.png) IN
         hb' = IF image_files = <<>> THEN GiveUp(hb)
               ELSE [hb EXCEPT !.pc = "ocr_page", !.image_files = image_files,
                               !.md_files = DOMAIN hb.md, !.pos = 1,
                               !.md_content = <<>>, !.retry_limit = 1,
                               !.folded = <<>>, !.cached = {}]

\* Lines 162-204 for the image at pos: the page read back from its md file,
\* or one round of img2md
HbOcrPage ==
    /\ hb.pc = "ocr_page"
    /\ hb.pos <= Len(hb.image_files)
    /\ LET k == hb.image_files[hb.pos]
           next(h, content) ==
               [h EXCEPT !.md_content = @ \o content \o <<"nl", "nl">>,
                         !.folded = Append(@, k),
                         !.pos = @ + 1, !.retry_limit = 1]
       IN  IF k \in hb.md_files /\ k \in DOMAIN hb.md /\ truthy(hb.md[k])
           THEN hb' = [next(hb, hb.md[k]) EXCEPT !.cached = @ \cup {k}]
           ELSE \/ \E current_page_content \in {<<>>, <<PageText(k)>>} :
                     IF truthy(current_page_content)
                     THEN hb' = next([hb EXCEPT !.md = Put(@, k, current_page_content)],
                                     current_page_content)
                     ELSE hb' = RetryOrGiveUp(hb, "ocr_page")
                \/ \* img2md raises
                   hb' = RetryOrGiveUp(hb, "ocr_page")

\* Lines 207-214: handbook.md
HbOcrSave ==
    /\ hb.pc = "ocr_page"
    /\ hb.pos > Len(hb.image_files)
    /\ hb' = IF truthy(hb.md_content)
             THEN Counted([hb EXCEPT !.files = Put(@, "handbook.md", hb.md_content),
                                     !.status[2] = DONE], FALSE)
             ELSE GiveUp(hb)

\* Lines 229-266 (translate) and 282-318 (analysis): handbook.md read, one
\* round of md2zh / md2report, the result written
HbDerive(at, tool_output, target) ==
    /\ hb.pc = at
    /\ IF "handbook.md" \notin DOMAIN hb.files \/ strip(hb.files["handbook.md"]) = <<>>
       THEN hb' = GiveUp(hb)
       ELSE \/ hb' = RetryOrGiveUp(hb, at)
            \/ \E content \in {<<>>, tool_output} :
                 hb' = IF truthy(content)
                       THEN Counted([hb EXCEPT !.files = Put(@, target, content),
                                               !.status[hb.work] = DONE], FALSE)
                       ELSE GiveUp(hb)

HbTranslate == HbDerive("translate", <<"zh">>, "handbook_zh.md")

HbAnalysis == HbDerive("analysis", <<"report">>, "handbook_report.md")

\* Lines 218-219: after the run a person sets a work that was left in
\* progress back to not_started and starts the program again
HbReset ==
    /\ hb.pc = "end"
    /\ hb.resets < MaxResets
    /\ \E w \in DOMAIN hb.status :
         /\ hb.status[w] = IN_PROGRESS
         /\ hb' = [hb EXCEPT !.status[w] = NOT_STARTED, !.pc = "idle",
                             !.resets = @ + 1,
                             !.job_count = 0, !.success_count = 0,
                             !.failed_count = 0]

NextHandbook ==
    \/ HbGetJob /\ UNCHANGED <<sanVars, staleVars, expVars, mainVars, revVars, dlVars>>
    \/ HbEnter /\ UNCHANGED <<sanVars, staleVars, expVars, mainVars, revVars, dlVars>>
    \/ HbPdf2img /\ UNCHANGED <<sanVars, staleVars, expVars, mainVars, revVars, dlVars>>
    \/ HbSaveImage /\ UNCHANGED <<sanVars, staleVars, expVars, mainVars, revVars, dlVars>>
    \/ HbImagesDone /\ UNCHANGED <<sanVars, staleVars, expVars, mainVars, revVars, dlVars>>
    \/ HbOcrStart /\ UNCHANGED <<sanVars, staleVars, expVars, mainVars, revVars, dlVars>>
    \/ HbOcrPage /\ UNCHANGED <<sanVars, staleVars, expVars, mainVars, revVars, dlVars>>
    \/ HbOcrSave /\ UNCHANGED <<sanVars, staleVars, expVars, mainVars, revVars, dlVars>>
    \/ HbTranslate /\ UNCHANGED <<sanVars, staleVars, expVars, mainVars, revVars, dlVars>>
    \/ HbAnalysis /\ UNCHANGED <<sanVars, staleVars, expVars, mainVars, revVars, dlVars>>
    \/ HbReset /\ UNCHANGED <<sanVars, staleVars, expVars, mainVars, revVars, dlVars>>

SpecHandbook == InitHandbook /\ [][NextHandbook]_vars

\* ------------------------------------------------------------------------
\* PDFDownloader.batch_download_from_csv
\* ------------------------------------------------------------------------
MaxRows == 3         \* rows of the CSV file
MaxDlWorkers == 2    \* largest max_workers of the downloader

\* What a CSV row comes to: no URL in it, or the file name derived from its
\* first column and the URL path (lines 103-111)
RowKinds == {"no_url", "a", "b"}
\* random.randint(1000, 9999), two of its values
RandomNums == {"1000", "1001"}

NoTask == [pc |-> "queued", pdf_filename |-> <<>>, result |-> <<"", <<>>, "">>]

InitDownload ==
    \E n \in 1..MaxRows :
    \E rows \in [1..n -> RowKinds] :
    \E max_workers \in 1..MaxDlWorkers :
        /\ dl = [pc |-> "pool", rows |-> rows,
                 max_workers |-> Min2(max_workers, n),
                 task |-> [i \in 1..n |-> NoTask],
                 files |-> <<>>,
                 results |-> [i \in 1..n |-> <<"", <<>>, "">>],
                 report |-> <<>>]
        /\ sanIn = <<>> /\ sanOut = <<>> /\ sanPc = "off"
        /\ stJp = 0 /\ stZh = 0 /\ stOut = "off"
        /\ exN = 0 /\ exW = 1 /\ exPc = "off" /\ exProg = <<>> /\ exTask = <<>>
        /\ exFiles = <<>> /\ exWrites = <<>> /\ exWriter = <<>>
        /\ fs = <<>> /\ pages = <<>> /\ pc = "off" /\ wf = <<>> /\ psp = <<>>
        /\ runs = 0 /\ rasterCalls = <<>> /\ env = "off"
        /\ rv = <<>> /\ hb = <<>>

\* The tasks a pool thread is working on
Running == {i \in DOMAIN dl.task : dl.task[i].pc \in {"check", "open", "write"}}

\* Lines 138-146 and 80-111: a pool thread takes row i; without a URL, or when
\* the request fails, the row is Failed; otherwise the response is held and
\* the target name derived
DlFetch(i) ==
    /\ dl.pc = "pool"
    /\ dl.task[i].pc = "queued"
    /\ Cardinality(Running) < dl.max_workers
    /\ IF dl.rows[i] = "no_url"
       THEN dl' = [dl EXCEPT !.task[i] = [NoTask EXCEPT !.pc = "returned",
                                            !.result = <<"Failed", <<>>, "No URL found">>]]
       ELSE \/ dl' = [dl EXCEPT !.task[i] = [NoTask EXCEPT !.pc = "returned",
                                               !.result = <<"Failed", <<>>, "error">>]]
            \/ dl' = [dl EXCEPT !.task[i] = [NoTask EXCEPT !.pc = "check",
                                               !.pdf_filename = <<dl.rows[i]>>]]

\* Lines 113-117: one test of the while loop
DlCheck(i) ==
    /\ dl.pc = "pool"
    /\ dl.task[i].pc = "check"
    /\ IF dl.task[i].pdf_filename \in DOMAIN dl.files
       THEN \E random_num \in RandomNums :
              dl' = [dl EXCEPT !.task[i].pdf_filename = <<random_num>> \o @]
       ELSE dl' = [dl EXCEPT !.task[i].pc = "open"]

\* Line 119: open(pdf_file_path, 'wb') creates or truncates the file
DlOpen(i) ==
    /\ dl.pc = "pool"
    /\ dl.task[i].pc = "open"
    /\ dl' = [dl EXCEPT !.files = Put(@, dl.task[i].pdf_filename, <<>>),
                        !.task[i].pc = "write"]

\* Lines 120-122: the content of this row's response written, the file closed
DlWrite(i) ==
    /\ dl.pc = "pool"
    /\ dl.task[i].pc = "write"
    /\ dl' = [dl EXCEPT !.files = Put(@, dl.task[i].pdf_filename, <<i>>),
                        !.task[i].pc = "returned",
                        !.task[i].result = <<"Success", dl.task[i].pdf_filename, "200 OK">>]

\* Lines 176-180: as_completed hands a finished future to the main thread
DlCollect(i) ==
    /\ dl.pc = "pool"
    /\ dl.task[i].pc = "returned"
    /\ dl' = [dl EXCEPT !.results[i] = dl.task[i].result,
                        !.task[i].pc = "collected"]

\* Lines 185-198: the report, once every future was collected
DlReport ==
    /\ dl.pc = "pool"
    /\ \A i \in DOMAIN dl.task : dl.task[i].pc = "collected"
    /\ dl' = [dl EXCEPT !.pc = "done", !.report = dl.results]

NextDownload ==
    \/ (\E i \in DOMAIN dl.task : DlFetch(i)) /\ UNCHANGED <<sanVars, staleVars, expVars, mainVars, revVars, hbVars>>
    \/ (\E i \in DOMAIN dl.task : DlCheck(i)) /\ UNCHANGED <<sanVars, staleVars, expVars, mainVars, revVars, hbVars>>
    \/ (\E i \in DOMAIN dl.task : DlOpen(i)) /\ UNCHANGED <<sanVars, staleVars, expVars, mainVars, revVars, hbVars>>
    \/ (\E i \in DOMAIN dl.task : DlWrite(i)) /\ UNCHANGED <<sanVars, staleVars, expVars, mainVars, revVars, hbVars>>
    \/ (\E i \in DOMAIN dl.task : DlCollect(i)) /\ UNCHANGED <<sanVars, staleVars, expVars, mainVars, revVars, hbVars>>
    \/ DlReport /\ UNCHANGED <<sanVars, staleVars, expVars, mainVars, revVars, hbVars>>

SpecDownload == InitDownload /\ [][NextDownload]_vars

\* ------------------------------------------------------------------------
\* properties
\* ------------------------------------------------------------------------
Count(s, c) == Cardinality({i \in 1..Len(s) : s[i] = c})
NonSpace(c) == ~IsSpace(c)
Text(s) == SelectSeq(s, NonSpace)
SetOf(s) == {s[i] : i \in 1..Len(s)}

PageStageDone == pc = "psp_pages" /\ psp.pos > Len(psp.image_files)
HasReturned == pc = "wf_loop" /\ psp.ret # "none"
ValidAtStart(k) == k \in DOMAIN psp.mdAtStart /\ strip(psp.mdAtStart[k]) # <<>>

\* C1: a resume run on a unit whose page artifacts are all present-valid calls
\* neither perform_ocr nor format_to_markdown, and assembles the very aggregate
\* the previous run on that unit assembled.
C1_RerunReproducesAggregate ==
    (/\ PageStageDone
     /\ psp.resume
     /\ psp.image_files # <<>>
     /\ \A k \in SetOf(psp.image_files) : ValidAtStart(k)
     /\ psp.prevAgg # <<>>)
    => /\ psp.ocrCalled = {}
       /\ psp.fmtCalled = {}
       /\ psp.md_content = psp.prevAgg[1]

\* C2: a visited page is converted (perform_ocr, then format_to_markdown) iff
\* its artifact was absent or empty after trimming; an empty artifact is gone
\* before the conversion writes anything; a present-valid artifact is neither
\* converted nor rewritten nor deleted.
C2_PageCacheRule ==
    (pc = "psp_pages" /\ psp.paged) =>
        LET md == fs[Resolve(psp.output_folder)].md IN
        /\ psp.fmtCalled \subseteq psp.ocrCalled
        /\ psp.ocrCalled \subseteq DOMAIN psp.visited
        /\ \A k \in DOMAIN psp.visited :
             /\ (k \in psp.ocrCalled) <=> ~ValidAtStart(k)
             /\ ValidAtStart(k) => (k \in DOMAIN md /\ md[k] = psp.mdAtStart[k])
             /\ (k \in DOMAIN psp.mdAtStart /\ ~ValidAtStart(k) /\ k \in DOMAIN md)
                    => k \in psp.fmtCalled

C2_Witness ==
    /\ PageStageDone
    /\ \E k1, k2 \in DOMAIN psp.visited :
         /\ ValidAtStart(k1)
         /\ k2 \in DOMAIN psp.mdAtStart /\ ~ValidAtStart(k2) /\ k2 \in psp.fmtCalled

\* The text of the present-valid artifacts of pages k .. n-1, in index order
RECURSIVE ValidTextFrom(_, _, _)
ValidTextFrom(md, k, n) ==
    IF k >= n THEN <<>>
    ELSE (IF k \in DOMAIN md THEN Text(md[k]) ELSE <<>>) \o ValidTextFrom(md, k + 1, n)

\* C3: when the page loop ends the aggregate holds the text of every page
\* that is present-valid then, in ascending numeric page order, cached or
\* converted alike; only the pages that were not present-valid were converted.
C3_AggregateInIndexOrder ==
    PageStageDone =>
        /\ Text(psp.md_content)
             = ValidTextFrom(fs[Resolve(psp.output_folder)].md, 0, Len(psp.image_files))
        /\ psp.ocrCalled = {k \in SetOf(psp.image_files) : ~ValidAtStart(k)}

C3_Witness ==
    /\ PageStageDone
    /\ Len(psp.image_files) = 5
    /\ {k \in 0..4 : ValidAtStart(k)} = {0, 2, 4}
    /\ DOMAIN psp.mdAtStart = {0, 2, 4}
    /\ psp.fmtCalled = {1, 3}
    /\ Text(psp.md_content) = <<"p0", "p1", "p2", "p3", "p4">>

\* C4: when perform_ocr fails for all N >= 1 pages of a run, after the call
\* returned the unit directory carries _ocr_failed, the result is False and
\* analyze_admission_info was not called.
C4_AllFailedIsQuarantined ==
    (/\ HasReturned
     /\ psp.paged
     /\ psp.image_files # <<>>
     /\ psp.ocrNone = SetOf(psp.image_files))
    => /\ psp.ret = "false"
       /\ ~psp.analyzeCalled
       /\ ~exists(fs, psp.output_folder)
       /\ Resolve(AddSuffix(Cwd \o FreshRoot \o <<psp.base_name>>, OCR_FAILED)) \in DOMAIN fs

\* The directories of the output root made for document d
UnitDirs(d) == {p \in DOMAIN fs : Parent(p) = Resolve(FreshRoot) /\ fs[p].doc = d}
HasSuffix(name, sfx) ==
    Len(name) >= Len(sfx) /\ SubSeq(name, Len(name) - Len(sfx) + 1, Len(name)) = sfx
IsQuarantined(name) == \E sfx \in {OCR_FAILED, NO_CONTENT, CAN_NOT_ANALYZE} : HasSuffix(name, sfx)
IsIdentityNamed(name) ==
    name \in {sanitize_filename(i.univ \o <<"_">> \o i.date) : i \in Identities}
IsTerminal(p) == IsQuarantined(p[Len(p)]) \/ IsIdentityNamed(p[Len(p)])

\* C5: between runs, a document that has a terminal directory (named by
\* identity, or carrying a quarantine suffix) has no other directory in the
\* output root.
C5_OneTerminalDirectory ==
    pc = "idle" =>
        \A d \in InputDocs :
            (\E p \in UnitDirs(d) : IsTerminal(p)) => Cardinality(UnitDirs(d)) = 1

\* C6: the decision is 'stale' exactly when |L_a - L_d| / max(L_a, L_d, 1) * 100
\* exceeds 15.
C6_StaleByPlainMax ==
    stOut \in {"stale", "fresh"} =>
        (stOut = "stale" <=> Abs(stJp - stZh) * 100 > 15 * Max2(Max2(stJp, stZh), 1))

\* C6 (amended): the decision is 'stale' exactly when
\* |L_a - L_d| / (max(L_a, L_d) + 1) * 100 exceeds 15; (100, 80) is stale and
\* (100, 88) is not.
C6_StaleByMaxPlusOne ==
    stOut \in {"stale", "fresh"} =>
        /\ stOut = "stale" <=> Abs(stJp - stZh) * 100 > 15 * (Max2(stJp, stZh) + 1)
        /\ (stJp = 100 /\ stZh = 80) => stOut = "stale"
        /\ (stJp = 100 /\ stZh = 88) => stOut = "fresh"

C6_Witness == stOut = "stale" /\ stJp = 100 /\ stZh = 80

\* C7: the result of sanitize_filename is made of alphanumeric characters, '_'
\* and '-' only (no path separator, no whitespace); every '/' of the argument
\* has become a '-' and every ' ' a '_', the alphanumeric characters are kept
\* in order.
C7_SanitizedName ==
    sanPc = "returned" =>
        /\ \A i \in 1..Len(sanOut) : sanOut[i] \in AlnumChars \cup {"_", "-"}
        /\ \A i \in 1..Len(sanOut) : sanOut[i] \notin PathSeparators \cup WhitespaceChars
        /\ Count(sanOut, "-") = Count(sanIn, "/") + Count(sanIn, "-")
        /\ Count(sanOut, "_") = Count(sanIn, " ") + Count(sanIn, "_")
        /\ SelectSeq(sanOut, isalnum) = SelectSeq(sanIn, isalnum)

C7_Witness ==
    /\ sanPc = "returned"
    /\ sanIn = <<"circle", "/", " ">>
    /\ sanOut = <<"-", "_">>

\* C8: a page formatted to EMPTY_PAGE adds nothing to the aggregate and is not
\* counted as a failure; a unit whose pages all give EMPTY_PAGE has a blank
\* aggregate.
C8_SentinelAddsNothing ==
    PageStageDone =>
        /\ psp.ocr_error_count <= Len(psp.image_files) - Cardinality(psp.sentinel)
        /\ psp.sentinel # {} => "EMPTY_PAGE" \notin SetOf(psp.md_content)
        /\ (psp.image_files # <<>> /\ psp.sentinel = SetOf(psp.image_files))
               => strip(psp.md_content) = <<>>

\* The file indices of chunk i
ChunkIndices(i) ==
    {start_idx(i, exN, exW) + j : j \in 0..(Len(ChunkOf(i, exN, exW)) - 1)}

\* C9: no file is ever written twice or by two workers; when the exporter
\* returns, exactly scan_0 .. scan_{N-1} exist, scan_k holds image k, and the
\* chunks' index ranges are pairwise disjoint and cover 0 .. N-1.
C9_ExactlyOnceExport ==
    /\ \A k \in DOMAIN exWrites : exWrites[k] = 1 /\ Cardinality(exWriter[k]) = 1
    /\ exPc = "returned" =>
         /\ exN >= 1
         /\ DOMAIN exFiles = 0..(exN - 1)
         /\ \A k \in DOMAIN exFiles : exFiles[k] = [page |-> k]
         /\ \A i, j \in DOMAIN exTask : i # j => ChunkIndices(i) \cap ChunkIndices(j) = {}
         /\ UNION {ChunkIndices(i) : i \in DOMAIN exTask} = 0..(exN - 1)

C9_Witness ==
    /\ exPc = "returned"
    /\ exN = 4
    /\ exW = 3
    /\ Cardinality(DOMAIN exTask) = 2

\* C10: the rasterizer runs at most once for a document over all runs, and a
\* call that is about to rasterize finds no pdf2md.log in the unit directory.
C10_RasterizedAtMostOnce ==
    /\ \A d \in DOMAIN rasterCalls : rasterCalls[d] <= 1
    /\ pc = "psp_convert" => fs[Resolve(psp.output_folder)].log = "absent"

\* The directories of the new output root made for the document of the call
\* that still hold its copied PDF
KeptUnitDirs ==
    {p \in DOMAIN fs : /\ Parent(p) = Resolve(psp.output_base_folder)
                       /\ fs[p].doc = psp.doc
                       /\ DOMAIN fs[p].pdfs # {}}

\* C11: whatever failure ends a call of process_single_pdf once the unit
\* directory holds the copied PDF, the directory is at most renamed: it still
\* exists with the PDF, the page images, the page artifacts and pdf2md.log it
\* held; nothing of the unit is deleted.
C11_FailureNeverDeletes ==
    (pc = "mi_done" /\ psp.ret = "false") =>
        \E p \in KeptUnitDirs :
            /\ psp.paged => (fs[p].log = "done" /\ fs[p].png = SetOf(psp.image_files))
            /\ \A k \in DOMAIN psp.mdAtStart : ValidAtStart(k) => k \in DOMAIN fs[p].md

\* The name of the directory holding the PDF a call was made on
CallDirName == Resolve(psp.pdf_dir)[Len(Resolve(psp.pdf_dir))]

\* C12: for a subdirectory carrying a quarantine suffix, a resume run makes no
\* rasterize, recognize, format, identity or translate call and works in no
\* directory other than that subdirectory.
C12_QuarantinedNotRetried ==
    (psp.active /\ psp.resume /\ IsQuarantined(CallDirName)) =>
        /\ ~psp.rasterized
        /\ psp.ocrCalled = {}
        /\ psp.fmtCalled = {}
        /\ ~psp.analyzeCalled
        /\ ~psp.translateCalled
        /\ psp.output_folder # <<>> => Resolve(psp.output_folder) = Resolve(psp.pdf_dir)

\* C13: no failure of one unit takes workflow out of its loop: the run never
\* ends by an exception, so every document is processed and the summary is
\* produced.
C13_LoopNeverAborts == pc # "aborted"

\* The pages converted and written by the call so far
PagesConverted ==
    {k \in psp.fmtCalled : k \in DOMAIN fs[Resolve(psp.output_folder)].md}

\* The translation of the unit is absent, or its non-blank line count is more
\* than 15% away from the aggregate's
DerivedStale ==
    LET zh == fs[Resolve(psp.output_folder)].zh
        L_d == non_blank_lines(zh[psp.new_base])
        L_a == non_blank_lines(psp.md_content)
    IN  \/ psp.new_base \notin DOMAIN zh
        \/ Abs(L_a - L_d) * 100 > 15 * (Max2(L_a, L_d) + 1)

\* C14: a call that reaches the translation check invokes translate_markdown
\* iff the translation is absent or its line-count delta against the
\* aggregate exceeds the threshold.
C14_TranslateIffStale ==
    /\ pc = "psp_translate" => DerivedStale
    /\ (pc = "psp_rename" /\ ~psp.translateCalled) => ~DerivedStale

\* C14 (amended): a call that reaches the translation check invokes
\* translate_markdown iff a page was converted and written in this call, or
\* the translation is absent, or its line-count delta against the aggregate
\* exceeds the threshold.
C14_TranslateIffStaleOrConverted ==
    /\ pc = "psp_translate" => (DerivedStale \/ PagesConverted # {})
    /\ (pc = "psp_rename" /\ ~psp.translateCalled) => ~(DerivedStale \/ PagesConverted # {})
    /\ psp.translateCalled => pc \in {"psp_rename", "psp_rename_pdf", "wf_loop"}

C14_Witness ==
    /\ pc = "psp_rename"
    /\ ~psp.translateCalled
    /\ psp.new_base \in DOMAIN fs[Resolve(psp.output_folder)].zh
    /\ psp.ocrCalled = {}

\* C15: a resume call on a unit directory that is not quarantined works in
\* that very directory, and does not rasterize when the directory holds a
\* completed pdf2md.log, whatever interrupted the earlier runs.
C15_ResumeReentersUnit ==
    (psp.active /\ psp.resume /\ psp.output_folder # <<>> /\ ~IsQuarantined(CallDirName)) =>
        /\ Resolve(psp.output_folder) = Resolve(psp.pdf_dir)
        /\ pc = "psp_convert" => fs[Resolve(psp.pdf_dir)].log # "done"

\* C16: the directory a call works in was made for the document of that call
\* and for no other document of the run, and it is not the output root.
C16_ExclusiveUnitDirectory ==
    (psp.active /\ psp.output_folder # <<>> /\ exists(fs, psp.output_folder)) =>
        /\ fs[Resolve(psp.output_folder)].doc = psp.doc
        /\ Resolve(psp.output_folder) # Resolve(psp.output_base_folder)

\* The unit directory of the call holds every page image of its document
AllImagesOnDisk ==
    fs[Resolve(psp.output_folder)].png = 0..(pages[psp.doc] - 1)

\* C17: no page is recognized or formatted before every page image is on disk
\* and pdf2md.log holds its completion line; the log is written only after
\* the exporter returned without error, and before the page loop; a call
\* whose exporter raised has written no log and converted no page.
C17_RasterizeBeforeConvert ==
    /\ pc \in {"psp_enter", "psp_convert", "psp_log"} =>
           (psp.ocrCalled = {} /\ psp.fmtCalled = {})
    /\ pc = "psp_log" => (AllImagesOnDisk /\ psp.nimg = pages[psp.doc])
    /\ pc = "psp_pages" =>
           /\ AllImagesOnDisk
           /\ fs[Resolve(psp.output_folder)].log = "done"
           /\ psp.image_files = SortAscending(0..(pages[psp.doc] - 1))
    /\ (psp.rasterized /\ psp.nimg = 0 /\ pc # "psp_convert") =>
           /\ pc = "wf_loop" /\ psp.ret = "false"
           /\ psp.ocrCalled = {} /\ psp.fmtCalled = {}
           /\ fs[Resolve(psp.output_folder)].log # "done"

C17_Witness ==
    /\ pc = "psp_pages"
    /\ psp.rasterized
    /\ psp.fmtCalled # {}
    /\ Len(psp.image_files) = MaxPages

\* The call ended in the handler of line 506 because the rasterizer or the
\* exporter raised
RasterizationFailed ==
    pc = "wf_loop" /\ psp.rasterized /\ psp.nimg = 0

\* C18: a call whose rasterization or export raised returns False with no
\* completion line in pdf2md.log, no quarantine rename (the unit directory
\* keeps its name) and no recognize, format, identity or
\* translate call; a resume call on a unit without the completion line
\* rasterizes again, and when that succeeds every page image is on disk.
C18_RasterizationFailureNotQuarantined ==
    /\ RasterizationFailed =>
           /\ psp.ret = "false"
           /\ psp.quarantine = <<>>
           /\ exists(fs, psp.output_folder)
           /\ psp.output_folder = join(psp.output_base_folder, <<psp.base_name>>)
           /\ ~IsQuarantined(psp.output_folder[Len(psp.output_folder)])
           /\ fs[Resolve(psp.output_folder)].log # "done"
           /\ psp.ocrCalled = {} /\ psp.fmtCalled = {}
           /\ ~psp.analyzeCalled /\ ~psp.translateCalled
    /\ (psp.resume /\ pc = "psp_pages" /\ ~psp.rasterized) =>
           fs[Resolve(psp.output_folder)].log = "done"
    /\ (psp.resume /\ psp.rasterized /\ pc = "psp_log") => AllImagesOnDisk

C18_Witness ==
    /\ RasterizationFailed
    /\ psp.resume
    /\ fs[Resolve(psp.output_folder)].png # {}
    /\ fs[Resolve(psp.output_folder)].png # 0..(pages[psp.doc] - 1)

\* The pages whose conversion was attempted in this call and ended without an
\* artifact: recognition failed, or formatting raised or returned nothing
FailedPages ==
    {k \in psp.ocrCalled : k \notin DOMAIN fs[Resolve(psp.output_folder)].md}

\* C19: during the page stage the failure counter equals the number of pages
\* whose conversion ended in a failure (recognition failed, formatting raised
\* or returned an empty result); each such page has no artifact on disk and
\* the loop goes on with the next page.
C19_FailureCounter ==
    pc = "psp_pages" =>
        /\ psp.ocr_error_count = Cardinality(FailedPages)
        /\ \A k \in psp.ocrCalled :
               k \in DOMAIN fs[Resolve(psp.output_folder)].md => k \in psp.fmtCalled

\* The page stage of the returned call left a blank aggregate although not
\* every page failed
BlankAggregate ==
    /\ HasReturned
    /\ psp.paged
    /\ psp.pos > Len(psp.image_files)
    /\ psp.ocr_error_count # Len(psp.image_files)
    /\ strip(psp.md_content) = <<>>

\* C20: when not every page failed and the aggregate is blank after the page
\* stage, the call returns False, calls neither analyze_admission_info nor
\* translate_markdown, and leaves the unit directory under its name with the
\* suffix _no_content; a call in which every page failed is never given
\* that suffix.
C20_NoContentIsQuarantined ==
    /\ BlankAggregate =>
           /\ psp.ret = "false"
           /\ ~psp.analyzeCalled /\ ~psp.translateCalled
           /\ ~exists(fs, psp.output_folder)
           /\ Resolve(AddSuffix(psp.output_folder, NO_CONTENT)) \in DOMAIN fs
    /\ (HasReturned /\ psp.quarantine = NO_CONTENT) =>
           psp.ocr_error_count # Len(psp.image_files)

\* The replies that cannot be parsed into a record holding both fields
UnparseableReplies == {"prose", "fragments", "not_an_object", "missing_field"}

\* C21: when the reply of the analysis cannot be parsed into a record with
\* both fields (no JSON, several fragments, JSON that is not an object, an
\* object lacking a field), the call returns False with the unit directory
\* renamed to its name with the suffix _can_not_analyze, and the unit is
\* neither renamed by identity nor translated.
C21_UnparseableIsQuarantined ==
    (HasReturned /\ \E r \in UnparseableReplies : psp.info = OutcomeOfReply(r)) =>
        /\ psp.ret = "false"
        /\ ~psp.translateCalled
        /\ psp.new_base = <<>>
        /\ ~exists(fs, psp.output_folder)
        /\ Resolve(AddSuffix(psp.output_folder, CAN_NOT_ANALYZE)) \in DOMAIN fs

\* The suffix of the quarantine branch the returned call took (lines 429,
\* 438, 449), or the empty name when it took none
BranchSuffix ==
    IF psp.ocr_error_count = Len(psp.image_files) THEN OCR_FAILED
    ELSE IF strip(psp.md_content) = <<>> THEN NO_CONTENT
    ELSE IF psp.info = "none" THEN CAN_NOT_ANALYZE
    ELSE <<>>

\* C22: a call that took a quarantine branch has moved the unit directory
\* from <output_root>/<name> to <output_root>/<name><suffix>, for a relative
\* as well as an absolute output root: nothing is left at <output_root>/<name>
\* and the directory carrying the suffix holds the unit.
C22_QuarantineDestination ==
    (/\ HasReturned
     /\ psp.paged
     /\ psp.pos > Len(psp.image_files)
     /\ BranchSuffix # <<>>)
    => LET sibling == join(psp.output_base_folder, <<psp.base_name \o BranchSuffix>>)
       IN  /\ ~exists(fs, psp.output_folder)
           /\ exists(fs, sibling)
           /\ Parent(Resolve(sibling)) = Resolve(psp.output_base_folder)
           /\ fs[Resolve(sibling)].doc = psp.doc
           /\ psp.quarantine = BranchSuffix

\* C23: a page failure is recorded only after the failing collaborator was
\* invoked a second time: every page whose recognition failed in this call
\* has had perform_ocr invoked exactly twice, and no page more than twice.
C23_RetryOnce ==
    pc = "psp_pages" =>
        /\ \A k \in DOMAIN psp.recognizeCalls : psp.recognizeCalls[k] <= 2
        /\ \A k \in psp.ocrNone : psp.recognizeCalls[k] = 2

\* C24: when the exporter re-raises the failure of a worker, every worker has
\* finished: each one either failed itself or wrote every image of its chunk;
\* no worker was stopped because a sibling failed.
C24_ExporterJoinsAll ==
    (exPc = "raised" /\ exN >= 1) =>
        /\ \E i \in DOMAIN exTask : exTask[i] = "failed"
        /\ \A i \in DOMAIN exTask :
               \/ exTask[i] = "failed"
               \/ /\ exTask[i] = "done"
                  /\ exProg[i] = Len(ChunkOf(i, exN, exW))
                  /\ ChunkIndices(i) \subseteq DOMAIN exFiles

C24_Witness ==
    /\ exPc = "raised"
    /\ exN = MaxImages
    /\ \E i, j \in DOMAIN exTask :
           /\ exTask[i] = "failed" /\ exProg[i] = 0
           /\ exTask[j] = "done" /\ Len(ChunkOf(j, exN, exW)) >= 2

\* A page artifact of the unit was present-valid when the page stage of the
\* call started
CachedAtStart == \E k \in DOMAIN psp.mdAtStart : ValidAtStart(k)

\* C28: the failure counter stays within 0 .. number of page images and never
\* exceeds the number of pages attempted; a call that found a present-valid
\* page artifact at the start of its page stage attempts fewer pages than the
\* unit has, counts fewer failures than pages and does not quarantine the unit
\* as _ocr_failed.
C28_CachedPagesBlockOcrFailed ==
    psp.paged =>
        /\ psp.ocr_error_count \in 0..Len(psp.image_files)
        /\ psp.ocr_error_count <= Cardinality(psp.ocrCalled)
        /\ CachedAtStart =>
               /\ Cardinality(psp.ocrCalled) < Len(psp.image_files)
               /\ psp.ocr_error_count < Len(psp.image_files)
               /\ psp.quarantine # OCR_FAILED
               /\ Resolve(AddSuffix(psp.output_folder, OCR_FAILED)) \notin DOMAIN fs


\* process_single_pdf's staleness test (line_diff_exceeds) at a given
\* threshold, on the two documents
stale_at(threshold, zh_text, jp_text) ==
    LET zh_lines == non_blank_lines(zh_text)
        jp_lines == non_blank_lines(jp_text)
    IN  Abs(zh_lines - jp_lines) * 100 > threshold * Max2(zh_lines + 1, jp_lines + 1)

\* C25: review_workflow follows the rules of process_single_pdf: it does not
\* rasterize a unit whose pdf2md.log is present, it does not recognize or
\* format a page whose artifact is present and valid, and for the pair
\* (Japanese document, translation) it looks at it decides stale / not stale
\* as process_single_pdf's test does at the same threshold.
C25_ReviewFollowsMainRules ==
    /\ rv.regenerated => rv.log_at_start = "absent"
    /\ rv.ocr_on_valid = {}
    /\ rv.decided =>
           (rv.needs_translation <=> stale_at(REVIEW_THRESHOLD, rv.zh, rv.jp))

\* C27: whenever the pdf2md.log of a unit holds the completion line, every
\* page image scan_0 .. scan_{N-1} of the unit is on disk; a resume call that
\* skips rasterization finds at least one image, and no unit is renamed to
\* _ocr_failed with zero images found.
C27_LogImpliesImages ==
    /\ \A p \in DOMAIN fs :
           fs[p].log = "done" =>
               /\ fs[p].doc # NoDoc
               /\ (0..(pages[fs[p].doc] - 1)) \subseteq fs[p].png
    /\ (pc = "psp_pages" /\ psp.resume /\ ~psp.rasterized) =>
           Len(psp.image_files) >= 1
    /\ psp.quarantine = OCR_FAILED => Len(psp.image_files) >= 1


\* C26: process_handbooks_pdf.ocr folds the pages into handbook.md in
\* ascending numeric page order for every page count, cache hits and pages
\* converted in this run alike: scan_10 after scan_9.
C26_HandbookInIndexOrder ==
    hb.status[2] = DONE => hb.folded = SortAscending(hb.png)

\* The artifact a work of process_handbooks_pdf is done with is on disk, whole
StageArtifactWritten(w) ==
    CASE w = 1 -> hb.pdf /\ hb.png = 0..(hb.n - 1)
      [] w = 2 -> "handbook.md" \in DOMAIN hb.files /\ hb.files["handbook.md"] # <<>>
      [] w = 3 -> "handbook_zh.md" \in DOMAIN hb.files /\ hb.files["handbook_zh.md"] # <<>>
      [] w = 4 -> "handbook_report.md" \in DOMAIN hb.files
                  /\ hb.files["handbook_report.md"] # <<>>
      [] OTHER -> TRUE

\* C29: a worker of process_handbooks_pdf (pdf2img, ocr, translate, analysis)
\* holds the status IN_PROGRESS from its entry on; a work is DONE only when
\* its artifact has been written completely; a worker that failed (missing
\* input, empty result, retries used up) has returned to factory_start with
\* the status IN_PROGRESS, never DONE or NOT_STARTED.
C29_StageStatus ==
    /\ hb.pc \in {"pdf2img", "pdf2img_save", "ocr", "ocr_page", "translate", "analysis"} =>
           hb.status[hb.work] = IN_PROGRESS
    /\ \A w \in 1..4 : hb.status[w] = DONE => StageArtifactWritten(w)
    /\ hb.last.work \in 1..4 =>
           /\ hb.last.status \in {IN_PROGRESS, DONE}
           /\ hb.last.failed => hb.last.status = IN_PROGRESS
           /\ hb.last.status = DONE => ~hb.last.failed

C29_Witness ==
    /\ hb.last = [work |-> 3, status |-> IN_PROGRESS, failed |-> TRUE]
    /\ hb.status[1] = DONE /\ hb.status[2] = DONE /\ hb.status[3] = IN_PROGRESS
    /\ hb.n >= 2
    /\ "handbook_zh.md" \notin DOMAIN hb.files

\* C30: when batch_download_from_csv has written its report, no two rows
\* reported Success share a File_Path, and the file at the path of a Success
\* row holds the content downloaded for that row, under every interleaving
\* of the pool threads.
C30_DownloadsDoNotClobber ==
    dl.pc = "done" =>
        /\ \A i, j \in DOMAIN dl.report :
               (i # j /\ dl.report[i][1] = "Success" /\ dl.report[j][1] = "Success")
               => dl.report[i][2] # dl.report[j][2]
        /\ \A i \in DOMAIN dl.report :
               dl.report[i][1] = "Success" =>
                   /\ dl.report[i][2] \in DOMAIN dl.files
                   /\ dl.files[dl.report[i][2]] = <<i>>

====
